---- MODULE Spec2Model ----
(***************************************************************************)
(* A model of the script detector (src/script-detector-standalone):        *)
(* analyzeWebsite as a state machine (fetch, body read, static detectors,  *)
(* optional Browserless enrichment, summary) and its detectors as          *)
(* operators over JavaScript strings.  A JavaScript string is a TLA+       *)
(* string; a character is a string of length one; positions are 1-based.   *)
(***************************************************************************)
EXTENDS Integers, Sequences, FiniteSets, TLC

(***************************************************************************)
(* Strings                                                                 *)
(***************************************************************************)
Uppers == "ABCDEFGHIJKLMNOPQRSTUVWXYZ"
Lowers == "abcdefghijklmnopqrstuvwxyz"
Digits == "0123456789"

CharAt(s, i) == SubSeq(s, i, i)

CharsOf(s) == { CharAt(s, i) : i \in 1..Len(s) }

UpperSet == CharsOf(Uppers)
DigitSet == CharsOf(Digits)

\* String.prototype.toLowerCase on one ASCII character.
LowerOf == [ c \in UpperSet |->
               CharAt(Lowers, CHOOSE k \in 1..Len(Uppers) : CharAt(Uppers, k) = c) ]

LowerChar(c) == IF c \in UpperSet THEN LowerOf[c] ELSE c

\* The lower-case form of the characters lo..hi of s.
RECURSIVE LowerRange(_, _, _)
LowerRange(s, lo, hi) ==
  IF lo > hi THEN ""
  ELSE IF lo = hi THEN LowerChar(CharAt(s, lo))
  ELSE LET mid == (lo + hi) \div 2
       IN LowerRange(s, lo, mid) \o LowerRange(s, mid + 1, hi)

\* String.prototype.toLowerCase.
ToLower(s) == LowerRange(s, 1, Len(s))

\* The least number of a set of numbers, and otherwise when it is empty.
Least(numbers, otherwise) ==
  IF numbers = {} THEN otherwise
  ELSE CHOOSE n \in numbers : \A k \in numbers : n <= k

\* String.prototype.includes.
Includes(s, t) ==
  \E i \in 1..(Len(s) - Len(t) + 1) : SubSeq(s, i, i + Len(t) - 1) = t

\* String.prototype.startsWith.
StartsWith(s, t) == Len(t) <= Len(s) /\ SubSeq(s, 1, Len(t)) = t

\* Array.prototype.includes on a list of strings.
ListIncludes(list, x) == \E i \in 1..Len(list) : list[i] = x

\* The white space of \s and String.prototype.trim that the inputs use.
WhiteSpace == {" ", "\n", "\t"}

RECURSIVE TrimLeft(_)
TrimLeft(s) ==
  IF Len(s) > 0 /\ CharAt(s, 1) \in WhiteSpace THEN TrimLeft(SubSeq(s, 2, Len(s))) ELSE s

RECURSIVE TrimRight(_)
TrimRight(s) ==
  IF Len(s) > 0 /\ CharAt(s, Len(s)) \in WhiteSpace
    THEN TrimRight(SubSeq(s, 1, Len(s) - 1)) ELSE s

\* String.prototype.trim.
Trim(s) == TrimRight(TrimLeft(s))

(***************************************************************************)
(* Regular expressions.  A pattern is a sequence of items, matched by      *)
(* backtracking in the order ECMAScript tries the alternatives:            *)
(*   lit   a literal string                                                *)
(*   set   a character class (neg: negated), repeated min..max times       *)
(*         (max = -1: no upper limit), greedy unless lazy                  *)
(*   alt   a group of alternatives, tried left to right                    *)
(*   bos, eos   the assertions ^ and $ (no m flag)                         *)
(*   open, close   the parentheses of the capture group 1                  *)
(***************************************************************************)
Lit(str) == [k |-> "lit", str |-> str]
Rep(cs, neg, min, max, lazy) ==
  [k |-> "set", cs |-> cs, neg |-> neg, min |-> min, max |-> max, lazy |-> lazy]
One(cs) == Rep(cs, FALSE, 1, 1, FALSE)
Star(cs) == Rep(cs, FALSE, 0, -1, FALSE)
Plus(cs) == Rep(cs, FALSE, 1, -1, FALSE)
NotStar(cs) == Rep(cs, TRUE, 0, -1, FALSE)
NotPlus(cs) == Rep(cs, TRUE, 1, -1, FALSE)
Alt(alts) == [k |-> "alt", alts |-> alts]
Bos == [k |-> "bos"]
Eos == [k |-> "eos"]
Open == [k |-> "open"]
Close == [k |-> "close"]

\* The alternation lit1|lit2|... of literal strings.
Lits(strs) == <<Alt([j \in 1..Len(strs) |-> <<Lit(strs[j])>>])>>

NoMatch == [ok |-> FALSE, start |-> 0, end |-> 0, cs |-> 0, ce |-> 0]

\* Of a set of <<rank, match>> pairs, the match of least rank that is ok.
FirstHit(tries) ==
  LET hits == { t \in tries : t[2].ok }
  IN IF hits = {} THEN NoMatch
     ELSE (CHOOSE t \in hits : \A u \in hits : t[1] <= u[1])[2]

InClass(a, c) == IF a.neg THEN c \notin a.cs ELSE c \in a.cs

\* The number of characters from position i on that are in the class of a,
\* counted up to the item's max.
Run(a, s, i) ==
  LET limit == IF a.max >= 0 /\ a.max < Len(s) - i + 1 THEN a.max ELSE Len(s) - i + 1
  IN Least({ n \in 0..(limit - 1) : ~InClass(a, CharAt(s, i + n)) }, limit)

\* Match(items, s, i, m): the first match, in backtracking order, of the
\* items at position i of s; m carries the capture positions so far.
RECURSIVE Match(_, _, _, _), TryRep(_, _, _, _, _, _, _), TryAlt(_, _, _, _, _, _)
Match(items, s, i, m) ==
  IF Len(items) = 0 THEN [m EXCEPT !.ok = TRUE, !.end = i]
  ELSE LET a == Head(items)
           rest == Tail(items)
       IN CASE a.k = "lit" ->
                 IF i + Len(a.str) - 1 <= Len(s) /\ SubSeq(s, i, i + Len(a.str) - 1) = a.str
                   THEN Match(rest, s, i + Len(a.str), m) ELSE NoMatch
            [] a.k = "set" ->
                 LET r == Run(a, s, i)
                 IN IF r < a.min THEN NoMatch
                    ELSE TryRep(rest, s, i, m, a.min, r, a.lazy)
            [] a.k = "alt" -> TryAlt(a.alts, 1, rest, s, i, m)
            [] a.k = "bos" -> IF i = 1 THEN Match(rest, s, i, m) ELSE NoMatch
            [] a.k = "eos" -> IF i = Len(s) + 1 THEN Match(rest, s, i, m) ELSE NoMatch
            [] a.k = "open" -> Match(rest, s, i, [m EXCEPT !.cs = i])
            [] a.k = "close" -> Match(rest, s, i, [m EXCEPT !.ce = i])

\* The repetition counts lo..hi of a class: the first, from lo up when lazy
\* and from hi down when greedy, after which the rest matches.  tries pairs
\* the rank of each count with the match of the rest after it.
TryRep(rest, s, i, m, lo, hi, lazy) ==
  LET tries == { <<j, Match(rest, s, i + (IF lazy THEN lo + j ELSE hi - j), m)>> :
                 j \in 0..(hi - lo) }
  IN FirstHit(tries)

TryAlt(alts, j, rest, s, i, m) ==
  IF j > Len(alts) THEN NoMatch
  ELSE LET r == Match(alts[j] \o rest, s, i, m)
       IN IF r.ok THEN r ELSE TryAlt(alts, j + 1, rest, s, i, m)

\* The leftmost match at or after position from.
Search(items, s, from) ==
  LET tries == { <<p, Match(items, s, p, [NoMatch EXCEPT !.start = p])>> :
                 p \in from..(Len(s) + 1) }
  IN FirstHit(tries)

\* The items of a pattern with the i flag: matching compares the lower-case
\* forms of the pattern's and the string's characters.
RECURSIVE LowerItems(_)
LowerItems(items) ==
  [ j \in 1..Len(items) |->
      LET a == items[j]
      IN CASE a.k = "lit" -> Lit(ToLower(a.str))
           [] a.k = "set" -> [a EXCEPT !.cs = { LowerChar(c) : c \in a.cs }]
           [] a.k = "alt" -> Alt([ q \in 1..Len(a.alts) |-> LowerItems(a.alts[q]) ])
           [] OTHER -> a ]

\* A pattern without flags, and a pattern with the i flag.
Regex(items) == [items |-> items, icase |-> FALSE]
RegexI(items) == [items |-> LowerItems(items), icase |-> TRUE]

\* RegExp.prototype.exec of a pattern whose lastIndex is from - 1: the match
\* record, with positions in s.
RegexExec(re, s, from) ==
  Search(re.items, IF re.icase THEN ToLower(s) ELSE s, from)

\* RegExp.prototype.test of a pattern created by the call (lastIndex 0).
RegexTest(re, s) == RegexExec(re, s, 1).ok

\* The text of capture group 1 of a match in s.
Group1(s, m) == SubSeq(s, m.cs, m.ce - 1)

(***************************************************************************)
(* JavaScript values.  null and undefined are the empty sequence and a     *)
(* present value v is <<v>>.                                               *)
(***************************************************************************)
Null == <<>>
Some(v) == <<v>>

(***************************************************************************)
(* Content Normalizer                                                      *)
(***************************************************************************)
AlnumSet == UpperSet \cup DigitSet

\* /<script[^>]*>([\s\S]*?)<\/script>/gi
scriptPattern ==
  RegexI(<<Lit("<script"), NotStar({">"}), Lit(">"),
           Open, Rep({}, TRUE, 0, -1, TRUE), Close, Lit("</script>")>>)

\* The while loop of extractScriptContents: lastIndex is from - 1.
RECURSIVE ScriptLoop(_, _, _)
ScriptLoop(html, from, allScripts) ==
  LET match == RegexExec(scriptPattern, html, from)
  IN IF ~match.ok THEN allScripts
     ELSE ScriptLoop(html, match.end, allScripts \o " " \o Group1(html, match) \o " ")

extractScriptContents(html) == ScriptLoop(html, 1, "")

\* const combined = `${html} ${scriptContents}`
Combined(html) == html \o " " \o extractScriptContents(html)

\* /<title>([^<]*)<\/title>/i
titlePattern == RegexI(<<Lit("<title>"), Open, NotStar({"<"}), Close, Lit("</title>")>>)

extractPageTitle(html) ==
  LET match == RegexExec(titlePattern, html, 1)
  IN IF match.ok THEN Some(Trim(Group1(html, match))) ELSE Null

(***************************************************************************)
(* Analytics detectors                                                     *)
(***************************************************************************)
Quotes == {"\"", "'"}

\* /googletagmanager\.com\/gtag\/js/ and /G-[A-Z0-9]{8,12}/ (no flags)
ga4ScriptPattern == Regex(<<Lit("googletagmanager.com/gtag/js")>>)
ga4TokenPattern == Regex(<<Lit("G-"), Rep(AlnumSet, FALSE, 8, 12, FALSE)>>)

\* /(?:["'\s,;(]|^)(G-[A-Z0-9]{8,12})(?:["'\s,;)]|$)/gi
ga4IdPattern ==
  RegexI(<<Alt(<< <<One(Quotes \cup WhiteSpace \cup {",", ";", "("})>>, <<Bos>> >>),
           Open, Lit("G-"), Rep(AlnumSet, FALSE, 8, 12, FALSE), Close,
           Alt(<< <<One(Quotes \cup WhiteSpace \cup {",", ";", ")"})>>, <<Eos>> >>)>>)

\* while ((match = idPattern.exec(content)) !== null)
\*   if (!ids.includes(match[1])) ids.push(match[1]);
RECURSIVE IdLoop(_, _, _, _)
IdLoop(idPattern, content, from, ids) ==
  LET match == RegexExec(idPattern, content, from)
      id == Group1(content, match)
  IN IF ~match.ok THEN ids
     ELSE IdLoop(idPattern, content, match.end,
                 IF ListIncludes(ids, id) THEN ids ELSE Append(ids, id))

checkGA4(content) ==
  [found |-> RegexTest(ga4ScriptPattern, content) \/ RegexTest(ga4TokenPattern, content),
   measurementIds |-> IdLoop(ga4IdPattern, content, 1, <<>>)]

\* /googletagmanager\.com\/gtm\.js/ (no flags)
gtmScriptPattern == Regex(<<Lit("googletagmanager.com/gtm.js")>>)

\* /(?:["'\s,;(?]|^)(GTM-[A-Z0-9]{5,8})(?:["'\s,;)?]|$)/gi
gtmIdPattern ==
  RegexI(<<Alt(<< <<One(Quotes \cup WhiteSpace \cup {",", ";", "(", "?"})>>, <<Bos>> >>),
           Open, Lit("GTM-"), Rep(AlnumSet, FALSE, 5, 8, FALSE), Close,
           Alt(<< <<One(Quotes \cup WhiteSpace \cup {",", ";", ")", "?"})>>, <<Eos>> >>)>>)

checkGTM(content) ==
  [found |-> RegexTest(gtmScriptPattern, content),
   containerIds |-> IdLoop(gtmIdPattern, content, 1, <<>>)]

\* /clarity\.ms/ (no flags) and /clarity\.ms\/tag\/([a-z0-9-]{6,40})/i
clarityPattern == Regex(<<Lit("clarity.ms")>>)
clarityIdPattern ==
  RegexI(<<Lit("clarity.ms/tag/"), Open,
           Rep(CharsOf(Lowers) \cup DigitSet \cup {"-"}, FALSE, 6, 40, FALSE), Close>>)

checkMicrosoftClarity(content) ==
  LET idMatch == RegexExec(clarityIdPattern, content, 1)
  IN [found |-> RegexTest(clarityPattern, content),
      projectId |-> IF idMatch.ok THEN Some(Group1(content, idMatch)) ELSE Null]

\* /<meta\s+name=["']NAME["']\s+content=["']([^"']+)["']/i
VerificationPattern(name) ==
  RegexI(<<Lit("<meta"), Plus(WhiteSpace), Lit("name="), One(Quotes), Lit(name),
           One(Quotes), Plus(WhiteSpace), Lit("content="), One(Quotes),
           Open, NotPlus(Quotes), Close, One(Quotes)>>)

searchConsolePattern == VerificationPattern("google-site-verification")
bingPattern == VerificationPattern("msvalidate.01")

CheckVerification(pattern, html) ==
  LET metaMatch == RegexExec(pattern, html, 1)
  IN [found |-> metaMatch.ok,
      verificationCode |-> IF metaMatch.ok THEN Some(Group1(html, metaMatch)) ELSE Null]

checkSearchConsole(html) == CheckVerification(searchConsolePattern, html)

checkBingWebmaster(html) == CheckVerification(bingPattern, html)

(***************************************************************************)
(* List-valued detectors: each rule is one if (pattern.test(content))      *)
(* list.push(tool) of the source, in source order.                         *)
(***************************************************************************)
Rule(tool, items) == [tool |-> tool, re |-> RegexI(items)]

\* A loop that puts each matching tool at the front of the list.
RECURSIVE PushMatchingFront(_, _, _, _)
PushMatchingFront(rules, k, content, list) ==
  IF k > Len(rules) THEN list
  ELSE PushMatchingFront(rules, k + 1, content,
                         IF RegexTest(rules[k].re, content)
                           THEN <<rules[k].tool>> \o list ELSE list)

RECURSIVE PushMatching(_, _, _, _)
PushMatching(rules, k, content, list) ==
  IF k > Len(rules) THEN list
  ELSE PushMatching(rules, k + 1, content,
                    IF RegexTest(rules[k].re, content)
                      THEN Append(list, rules[k].tool) ELSE list)

SEOPluginRules == <<
  Rule("Yoast SEO", <<Alt(<< <<Lit("yoast.com")>>,
                             <<Lit("yoast"), Plus(WhiteSpace), Lit("seo")>> >>)>>),
  Rule("Rank Math SEO", Lits(<<"rankmath">>)),
  Rule("All in One SEO",
       <<Alt(<< <<Lit("all"), Plus(WhiteSpace), Lit("in"), Plus(WhiteSpace), Lit("one"),
                  Plus(WhiteSpace), Lit("seo")>>,
                <<Lit("aioseo")>> >>)>>) >>

checkSEOPlugins(html) ==
  LET plugins == PushMatching(SEOPluginRules, 1, html, <<>>)
  IN [found |-> Len(plugins) > 0, plugins |-> plugins]

CRMRules == <<
  Rule("HubSpot", Lits(<<"hs-scripts.com", "hsappstatic.net", "hubspot">>)),
  Rule("Salesforce", Lits(<<"salesforce.com", "pardot.com">>)),
  Rule("Marketo", Lits(<<"marketo.net", "mktoForms">>)),
  Rule("Pipedrive", Lits(<<"pipedrive.com">>)),
  Rule("Zoho CRM", Lits(<<"zoho.com", "zohostatic.com">>)) >>

checkCRMPlatforms(content) == PushMatching(CRMRules, 1, content, <<>>)

EmailRules == <<
  Rule("Mailchimp", Lits(<<"list-manage.com", "mailchimp.com">>)),
  Rule("Klaviyo", Lits(<<"klaviyo.com">>)),
  Rule("ActiveCampaign", Lits(<<"activecampaign.com">>)),
  Rule("Constant Contact", Lits(<<"constantcontact.com">>)),
  Rule("ConvertKit", Lits(<<"convertkit.com">>)),
  Rule("Brevo/Sendinblue", Lits(<<"sendinblue.com", "brevo.com">>)) >>

checkEmailMarketingTools(content) == PushMatching(EmailRules, 1, content, <<>>)

\* NAME\s*\(
CallOf(name) == <<Lit(name), Star(WhiteSpace), Lit("(")>>

\* The rules with a Facebook rule that does not know the call of fbq.
AdPlatformRulesWithoutFbq == <<
  Rule("Google Ads", Lits(<<"googleadservices.com", "google_conversion">>)),
  Rule("Facebook/Meta Pixel", Lits(<<"facebook.com/tr", "fbevents.js">>)),
  Rule("LinkedIn Insight Tag", Lits(<<"snap.licdn.com", "linkedin.com/px">>)),
  Rule("TikTok Pixel", Lits(<<"analytics.tiktok.com", "ttq.load">>)),
  Rule("Twitter/X Pixel", <<Alt(<< <<Lit("static.ads-twitter.com")>>, CallOf("twq") >>)>>),
  Rule("Pinterest Tag", Lits(<<"pintrk", "ct.pinterest.com">>)),
  Rule("Snapchat Pixel", Lits(<<"sc-static.net", "snaptr">>)),
  Rule("Reddit Pixel", <<Alt(<< <<Lit("reddit.com/pixel")>>, CallOf("rdt") >>)>>) >>

AdPlatformRules == <<
  Rule("Google Ads", Lits(<<"googleadservices.com", "google_conversion">>)),
  Rule("Facebook/Meta Pixel",
       <<Alt(<< <<Lit("facebook.com/tr")>>, <<Lit("fbevents.js")>>, CallOf("fbq") >>)>>),
  Rule("LinkedIn Insight Tag", Lits(<<"snap.licdn.com", "linkedin.com/px">>)),
  Rule("TikTok Pixel", Lits(<<"analytics.tiktok.com", "ttq.load">>)),
  Rule("Twitter/X Pixel", <<Alt(<< <<Lit("static.ads-twitter.com")>>, CallOf("twq") >>)>>),
  Rule("Pinterest Tag", Lits(<<"pintrk", "ct.pinterest.com">>)),
  Rule("Snapchat Pixel", Lits(<<"sc-static.net", "snaptr">>)),
  Rule("Reddit Pixel", <<Alt(<< <<Lit("reddit.com/pixel")>>, CallOf("rdt") >>)>>) >>

\* /fbq\s*\(\s*['"]init['"]\s*,\s*['"](\d+)['"]\s*\)/gi
fbPattern ==
  RegexI(<<Lit("fbq"), Star(WhiteSpace), Lit("("), Star(WhiteSpace), One(Quotes),
           Lit("init"), One(Quotes), Star(WhiteSpace), Lit(","), Star(WhiteSpace),
           One(Quotes), Open, Plus(DigitSet), Close, One(Quotes), Star(WhiteSpace),
           Lit(")")>>)

\* while ((match = fbPattern.exec(content)) !== null)
\*   pixelIds.push(`Facebook: ${match[1]}`);
RECURSIVE FbLoop(_, _, _)
FbLoop(content, from, pixelIds) ==
  LET match == RegexExec(fbPattern, content, from)
  IN IF ~match.ok THEN pixelIds
     ELSE FbLoop(content, match.end,
                 Append(pixelIds, "Facebook: " \o Group1(content, match)))

checkAdPlatforms(content) ==
  [platforms |-> PushMatching(AdPlatformRules, 1, content, <<>>),
   pixelIds |-> FbLoop(content, 1, <<>>)]

ConversionRules == <<
  Rule("Hotjar", Lits(<<"static.hotjar.com", "hotjar.js">>)),
  Rule("Optimizely", Lits(<<"optimizely.com">>)),
  Rule("VWO", Lits(<<"visualwebsiteoptimizer.com", "vwo.com">>)),
  Rule("Crazy Egg", Lits(<<"crazyegg.com">>)),
  Rule("Mouseflow", Lits(<<"mouseflow.com">>)),
  Rule("FullStory", Lits(<<"fullstory.com">>)),
  Rule("Lucky Orange", Lits(<<"luckyorange.com">>)),
  Rule("Segment", Lits(<<"cdn.segment.com">>)) >>

checkConversionOptimizationTools(content) == PushMatching(ConversionRules, 1, content, <<>>)

WidgetRules == <<
  Rule("Intercom", Lits(<<"intercom.io", "intercomcdn.com">>)),
  Rule("Zendesk Chat", Lits(<<"zendesk.com", "zdassets.com">>)),
  Rule("Drift", Lits(<<"drift.com", "js.driftt.com">>)),
  Rule("Tawk.to", Lits(<<"tawk.to">>)),
  Rule("LiveChat", Lits(<<"livechatinc.com">>)),
  Rule("Crisp", Lits(<<"crisp.chat">>)),
  Rule("Calendly", Lits(<<"calendly.com">>)),
  Rule("Typeform", Lits(<<"typeform.com">>)) >>

checkWidgets(content) == PushMatching(WidgetRules, 1, content, <<>>)

(***************************************************************************)
(* Infrastructure detectors                                                *)
(***************************************************************************)
CMSRules == <<
  Rule("WordPress", Lits(<<"wp-content/", "wp-includes/">>)),
  Rule("Webflow", Lits(<<"webflow.js", "webflow.io">>)),
  Rule("Squarespace", Lits(<<"squarespace.com", "squarespace-cdn.com">>)),
  Rule("Wix", Lits(<<"wix.com", "wixstatic.com">>)) >>

\* The fifth rule of checkCMS is tested against html, not against combined.
DrupalRules == << Rule("Drupal", Lits(<<"drupal-settings-json", "drupalSettings">>)) >>

checkCMS(combined, html) ==
  PushMatching(DrupalRules, 1, html, PushMatching(CMSRules, 1, combined, <<>>))

EcommerceRules == <<
  Rule("Shopify", Lits(<<"cdn.shopify.com", "myshopify.com">>)),
  Rule("WooCommerce", Lits(<<"woocommerce">>)),
  Rule("Magento", Lits(<<"magento">>)),
  Rule("BigCommerce", Lits(<<"bigcommerce.com">>)) >>

\* A decision list in which the last matching rule wins.
RECURSIVE LastMatching(_, _, _)
LastMatching(rules, k, content) ==
  IF k > Len(rules) THEN Null
  ELSE IF LastMatching(rules, k + 1, content) # Null
    THEN LastMatching(rules, k + 1, content)
  ELSE IF RegexTest(rules[k].re, content) THEN Some(rules[k].tool)
  ELSE Null

\* if (pattern.test(combined)) return tool; ... return null;
RECURSIVE FirstMatching(_, _, _)
FirstMatching(rules, k, content) ==
  IF k > Len(rules) THEN Null
  ELSE IF RegexTest(rules[k].re, content) THEN Some(rules[k].tool)
  ELSE FirstMatching(rules, k + 1, content)

checkEcommercePlatforms(combined, html) == FirstMatching(EcommerceRules, 1, combined)

(***************************************************************************)
(* Response headers: the object Object.fromEntries(response.headers        *)
(* .entries()), a sequence of [name, value] properties with distinct       *)
(* names, in property order.                                               *)
(***************************************************************************)
\* headers[name]: Null when the object has no such property.
HeaderGet(headers, name) ==
  IF \E i \in 1..Len(headers) : headers[i].name = name
    THEN Some(headers[CHOOSE i \in 1..Len(headers) : headers[i].name = name].value)
    ELSE Null

\* The truthiness of a string or undefined: undefined and "" are falsy.
Truthy(v) == v # Null /\ v[1] # ""

\* JSON.stringify of a string: the quoted string, with " and \ escaped.
RECURSIVE JSONEscape(_, _)
JSONEscape(s, i) ==
  IF i > Len(s) THEN ""
  ELSE (IF CharAt(s, i) \in {"\"", "\\"} THEN "\\" ELSE "") \o CharAt(s, i)
       \o JSONEscape(s, i + 1)

JSONQuote(s) == "\"" \o JSONEscape(s, 1) \o "\""

RECURSIVE JSONProperties(_, _)
JSONProperties(headers, i) ==
  IF i > Len(headers) THEN ""
  ELSE (IF i > 1 THEN "," ELSE "") \o JSONQuote(headers[i].name) \o ":"
       \o JSONQuote(headers[i].value) \o JSONProperties(headers, i + 1)

\* JSON.stringify(headers)
JSONStringifyHeaders(headers) == "{" \o JSONProperties(headers, 1) \o "}"

CDNRules == <<
  Rule("Cloudflare", Lits(<<"cloudflare.com", "cf-ray">>)),
  Rule("Amazon CloudFront", Lits(<<"cloudfront.net">>)),
  Rule("Fastly", Lits(<<"fastly.net">>)),
  Rule("Akamai", Lits(<<"akamai.net">>)) >>

\* A search of the page alone, the headers left out.
checkCDNProvidersPageOnly(combined, headers) ==
  PushMatching(CDNRules, 1, combined \o " ", <<>>)

checkCDNProviders(combined, headers) ==
  LET searchContent == combined \o " " \o JSONStringifyHeaders(headers)
  IN PushMatching(CDNRules, 1, searchContent, <<>>)

\* A decision list that asks for the Netlify marker before the Vercel one.
detectHostingNetlifyFirst(headers, domain) ==
  IF Truthy(HeaderGet(headers, "cf-ray")) THEN "Cloudflare"
  ELSE IF Truthy(HeaderGet(headers, "x-nf-request-id")) THEN "Netlify"
  ELSE IF Truthy(HeaderGet(headers, "x-vercel-id")) THEN "Vercel"
  ELSE IF Truthy(HeaderGet(headers, "x-github-request")) THEN "GitHub Pages"
  ELSE IF Includes(ToLower(IF Truthy(HeaderGet(headers, "server"))
                             THEN HeaderGet(headers, "server")[1] ELSE ""), "nginx")
    THEN "Nginx"
  ELSE IF Includes(ToLower(IF Truthy(HeaderGet(headers, "server"))
                             THEN HeaderGet(headers, "server")[1] ELSE ""), "apache")
    THEN "Apache"
  ELSE "Unknown"

detectHostingFromHeaders(headers, domain) ==
  LET server == HeaderGet(headers, "server")
      serverHeader == ToLower(IF Truthy(server) THEN server[1] ELSE "")
      cfRay == HeaderGet(headers, "cf-ray")
      xVercelId == HeaderGet(headers, "x-vercel-id")
      xNetlify == HeaderGet(headers, "x-nf-request-id")
  IN IF Truthy(cfRay) THEN "Cloudflare"
     ELSE IF Truthy(xVercelId) THEN "Vercel"
     ELSE IF Truthy(xNetlify) THEN "Netlify"
     ELSE IF Truthy(HeaderGet(headers, "x-github-request")) THEN "GitHub Pages"
     ELSE IF Includes(serverHeader, "nginx") THEN "Nginx"
     ELSE IF Includes(serverHeader, "apache") THEN "Apache"
     ELSE "Unknown"

(***************************************************************************)
(* SEO detectors                                                           *)
(***************************************************************************)
\* /<TAG\s+ATTR=["']NAME["']\s+VALUEATTR=["']([^"']*)/i
MetaPattern(tag, attr, name, valueAttr) ==
  RegexI(<<Lit("<" \o tag), Plus(WhiteSpace), Lit(attr \o "="), One(Quotes), Lit(name),
           One(Quotes), Plus(WhiteSpace), Lit(valueAttr \o "="), One(Quotes),
           Open, NotStar(Quotes), Close>>)

descPattern == MetaPattern("meta", "name", "description", "content")
robotsPattern == MetaPattern("meta", "name", "robots", "content")
canonicalPattern == MetaPattern("link", "rel", "canonical", "href")

\* const m = html.match(pattern); if (m) basic.field = m[1];
MetaField(pattern, html) ==
  LET m == RegexExec(pattern, html, 1)
  IN IF m.ok THEN Some(Group1(html, m)) ELSE Null

extractImportantMetaTags(html) ==
  [basic |-> [description |-> MetaField(descPattern, html),
              robots |-> MetaField(robotsPattern, html),
              canonical |-> MetaField(canonicalPattern, html)]]

(***************************************************************************)
(* JSON.parse.  A parsed value is [t, v]: t is "string" (v the text),      *)
(* "number" (v the numeral as written), "true", "false", "null" (v ""),    *)
(* "array" (v the sequence of elements) or "object" (v the sequence of     *)
(* [key, val] members as written).  "undefined" is the value of a missing  *)
(* property or element.  Of the string escapes, \" \\ \/ \n \t \r \f are   *)
(* decoded; the inputs hold no other escape.                               *)
(***************************************************************************)
JVal(t, v) == [t |-> t, v |-> v]
Undefined == JVal("undefined", "")

ParseFail == [ok |-> FALSE, val |-> Undefined, next |-> 0]
ParseOk(val, next) == [ok |-> TRUE, val |-> val, next |-> next]

JSONWhiteSpace == {" ", "\n", "\t", "\r"}

RECURSIVE SkipWs(_, _)
SkipWs(s, i) ==
  IF i <= Len(s) /\ CharAt(s, i) \in JSONWhiteSpace THEN SkipWs(s, i + 1) ELSE i

HasAt(s, i, t) == i + Len(t) - 1 <= Len(s) /\ SubSeq(s, i, i + Len(t) - 1) = t

Unescape(e) ==
  CASE e = "n" -> "\n" [] e = "t" -> "\t" [] e = "r" -> "\r" [] e = "f" -> "\f"
    [] OTHER -> e

\* The characters of a string literal after its opening quote.
RECURSIVE ParseChars(_, _, _)
ParseChars(s, i, acc) ==
  IF i > Len(s) THEN ParseFail
  ELSE LET c == CharAt(s, i)
       IN IF c = "\"" THEN ParseOk(JVal("string", acc), i + 1)
          ELSE IF c = "\\"
            THEN IF i + 1 <= Len(s) /\ CharAt(s, i + 1) \in {"\"", "\\", "/", "n", "t", "r", "f"}
                   THEN ParseChars(s, i + 2, acc \o Unescape(CharAt(s, i + 1)))
                   ELSE ParseFail
          ELSE IF c \in {"\n", "\t", "\r", "\f"} THEN ParseFail
          ELSE ParseChars(s, i + 1, acc \o c)

RECURSIVE DigitsEnd(_, _)
DigitsEnd(s, i) ==
  IF i <= Len(s) /\ CharAt(s, i) \in DigitSet THEN DigitsEnd(s, i + 1) ELSE i

\* -?(0|[1-9][0-9]*)(\.[0-9]+)?([eE][+-]?[0-9]+)?  A numeral starts at i;
\* its integer part ends before b, its fraction before c, and the digits of
\* its exponent start at e (e = c when it has none).
NumberFrom(s, i, d) == ParseOk(JVal("number", SubSeq(s, i, d - 1)), d)

NumberExponent(s, i, c, e) ==
  IF e = c THEN NumberFrom(s, i, c)
  ELSE IF DigitsEnd(s, e) = e THEN ParseFail
  ELSE NumberFrom(s, i, DigitsEnd(s, e))

NumberFraction(s, i, b, c) ==
  IF c = b + 1 THEN ParseFail
  ELSE NumberExponent(s, i, c,
         IF HasAt(s, c, "e") \/ HasAt(s, c, "E")
           THEN (IF HasAt(s, c + 1, "+") \/ HasAt(s, c + 1, "-") THEN c + 2 ELSE c + 1)
           ELSE c)

NumberInteger(s, i, a, b) ==
  IF b = a THEN ParseFail
  ELSE NumberFraction(s, i, b, IF HasAt(s, b, ".") THEN DigitsEnd(s, b + 1) ELSE b)

NumberSign(s, i, a) ==
  NumberInteger(s, i, a, IF HasAt(s, a, "0") THEN a + 1 ELSE DigitsEnd(s, a))

ParseNumber(s, i) == NumberSign(s, i, IF HasAt(s, i, "-") THEN i + 1 ELSE i)

RECURSIVE ParseValue(_, _), ParseElements(_, _, _), ParseMembers(_, _, _)
RECURSIVE AfterElement(_, _, _), AfterKey(_, _, _), AfterMember(_, _, _, _)
\* After [ or {, at position j: the empty array or object, or its content.
OpenArray(s, j) ==
  IF HasAt(s, j, "]") THEN ParseOk(JVal("array", <<>>), j + 1)
  ELSE ParseElements(s, j, <<>>)

OpenObject(s, j) ==
  IF HasAt(s, j, "}") THEN ParseOk(JVal("object", <<>>), j + 1)
  ELSE ParseMembers(s, j, <<>>)

\* A value at position i (white space before it already skipped).
ParseValue(s, i) ==
  IF i > Len(s) THEN ParseFail
  ELSE CASE CharAt(s, i) = "{" -> OpenObject(s, SkipWs(s, i + 1))
         [] CharAt(s, i) = "[" -> OpenArray(s, SkipWs(s, i + 1))
         [] CharAt(s, i) = "\"" -> ParseChars(s, i + 1, "")
         [] CharAt(s, i) \in DigitSet \cup {"-"} -> ParseNumber(s, i)
         [] HasAt(s, i, "true") -> ParseOk(JVal("true", ""), i + 4)
         [] HasAt(s, i, "false") -> ParseOk(JVal("false", ""), i + 5)
         [] HasAt(s, i, "null") -> ParseOk(JVal("null", ""), i + 4)
         [] OTHER -> ParseFail

\* value (, value)* ] from position i on; e is the element parsed there.
ParseElements(s, i, acc) == AfterElement(s, acc, ParseValue(s, i))

AfterElement(s, acc, e) ==
  IF ~e.ok THEN ParseFail
  ELSE IF HasAt(s, SkipWs(s, e.next), "]")
    THEN ParseOk(JVal("array", Append(acc, e.val)), SkipWs(s, e.next) + 1)
  ELSE IF HasAt(s, SkipWs(s, e.next), ",")
    THEN ParseElements(s, SkipWs(s, SkipWs(s, e.next) + 1), Append(acc, e.val))
  ELSE ParseFail

\* string : value (, string : value)* } from position i on.
ParseMembers(s, i, acc) ==
  IF ~HasAt(s, i, "\"") THEN ParseFail
  ELSE AfterKey(s, acc, ParseChars(s, i + 1, ""))

AfterKey(s, acc, key) ==
  IF ~key.ok \/ ~HasAt(s, SkipWs(s, key.next), ":") THEN ParseFail
  ELSE AfterMember(s, acc, key.val.v,
                   ParseValue(s, SkipWs(s, SkipWs(s, key.next) + 1)))

AfterMember(s, acc, key, e) ==
  IF ~e.ok THEN ParseFail
  ELSE IF HasAt(s, SkipWs(s, e.next), "}")
    THEN ParseOk(JVal("object", Append(acc, [key |-> key, val |-> e.val])),
                 SkipWs(s, e.next) + 1)
  ELSE IF HasAt(s, SkipWs(s, e.next), ",")
    THEN ParseMembers(s, SkipWs(s, SkipWs(s, e.next) + 1),
                      Append(acc, [key |-> key, val |-> e.val]))
  ELSE ParseFail

\* JSON.parse(text): ok is FALSE where JSON.parse throws a SyntaxError.
Complete(text, r) ==
  IF r.ok /\ SkipWs(text, r.next) = Len(text) + 1 THEN r ELSE ParseFail

JSONParse(text) == Complete(text, ParseValue(text, SkipWs(text, 1)))

\* value[key] of a parsed value that is not null: the last member of that
\* name of an object, undefined for any other value.
Property(value, key) ==
  IF value.t = "object" /\ \E i \in 1..Len(value.v) : value.v[i].key = key
    THEN value.v[CHOOSE i \in 1..Len(value.v) :
                   /\ value.v[i].key = key
                   /\ \A j \in (i + 1)..Len(value.v) : value.v[j].key # key].val
    ELSE Undefined

\* A numeral that denotes zero: it has no digit but 0 before its exponent.
IsZero(numeral) ==
  \A i \in 1..Len(numeral) :
    \/ CharAt(numeral, i) \notin DigitSet \ {"0"}
    \/ \E j \in 1..i : CharAt(numeral, j) \in {"e", "E"}

\* The truthiness of a parsed value.
JTruthy(value) ==
  CASE value.t = "string" -> value.v # ""
    [] value.t = "number" -> ~IsZero(value.v)
    [] value.t \in {"true", "array", "object"} -> TRUE
    [] OTHER -> FALSE

\* SameValueZero, the comparison of Array.prototype.includes: primitives by
\* value (numbers by numeral), arrays and objects by identity, and every
\* array or object of a parse is a new one.
SameValueZero(a, b) ==
  a.t = b.t /\ a.t \notin {"array", "object"} /\ a.v = b.v

\* /<script\s+type=["']application\/ld\+json["'][^>]*>([\s\S]*?)<\/script>/gi
ldJsonPattern ==
  RegexI(<<Lit("<script"), Plus(WhiteSpace), Lit("type="), One(Quotes),
           Lit("application/ld+json"), One(Quotes), NotStar({">"}), Lit(">"),
           Open, Rep({}, TRUE, 0, -1, TRUE), Close, Lit("</script>")>>)

\* Array.isArray(schema['@type']) ? schema['@type'][0] : schema['@type']
FirstType(declared) ==
  IF declared.t = "array"
    THEN (IF Len(declared.v) > 0 THEN declared.v[1] ELSE Undefined)
    ELSE declared

\* A push without the includes test.
PushTypeAlways(types, type) == Append(types, type)

\* if (!types.includes(type)) types.push(type)
PushType(types, type) ==
  IF \E i \in 1..Len(types) : SameValueZero(types[i], type) THEN types
  ELSE Append(types, type)

\* if (schema['@type']) { ... }
SchemaTypes(schema, types) ==
  IF ~JTruthy(Property(schema, "@type")) THEN types
  ELSE PushType(types, FirstType(Property(schema, "@type")))

\* The body of the try block for one ld+json block: the types after it.  A
\* SyntaxError of JSON.parse or the TypeError of null['@type'] leaves them.
SchemaParsed(parsed, types) ==
  IF ~parsed.ok \/ parsed.val.t = "null" THEN types
  ELSE SchemaTypes(parsed.val, types)

SchemaBlock(text, types) == SchemaParsed(JSONParse(Trim(text)), types)

RECURSIVE SchemaLoop(_, _, _), SchemaStep(_, _, _)
SchemaLoop(html, from, types) ==
  SchemaStep(html, RegexExec(ldJsonPattern, html, from), types)

SchemaStep(html, match, types) ==
  IF ~match.ok THEN types
  ELSE SchemaLoop(html, match.end, SchemaBlock(Group1(html, match), types))

FoundTypes(types) == [found |-> Len(types) > 0, types |-> types]

extractJSONLDSchema(html) == FoundTypes(SchemaLoop(html, 1, <<>>))

(***************************************************************************)
(* runDetectors and calculateSummary                                       *)
(***************************************************************************)
\* value || null for an optional string: "" and undefined give null.
OrNull(v) == IF Truthy(v) THEN v ELSE Null

\* The marketing object of runDetectors; adPlatforms is checkAdPlatforms'
\* return value.
MarketingFindings(combined, adPlatforms) ==
  [crm |-> checkCRMPlatforms(combined),
   emailMarketing |-> checkEmailMarketingTools(combined),
   adPlatforms |-> adPlatforms.platforms,
   pixelIds |-> adPlatforms.pixelIds,
   conversionTools |-> checkConversionOptimizationTools(combined),
   widgets |-> checkWidgets(combined)]

\* The seo object of runDetectors; schema and metaTags are the return
\* values of extractJSONLDSchema and extractImportantMetaTags.
SeoFindings(schema, metaTags) ==
  [hasSchema |-> schema.found,
   schemaTypes |-> schema.types,
   metaTags |-> metaTags,
   canonical |-> OrNull(metaTags.basic.canonical),
   robots |-> OrNull(metaTags.basic.robots)]

\* The object runDetectors returns; combined is `${html} ${scriptContents}`.
Detections(html, combined, headers) ==
  [pageTitle |-> extractPageTitle(html),
   analytics |-> [ga4 |-> checkGA4(combined),
                  gtm |-> checkGTM(combined),
                  microsoftClarity |-> checkMicrosoftClarity(combined),
                  searchConsole |-> checkSearchConsole(html),
                  seoPlugin |-> checkSEOPlugins(html),
                  bingWebmaster |-> checkBingWebmaster(html)],
   marketing |-> MarketingFindings(combined, checkAdPlatforms(combined)),
   infrastructure |-> [cms |-> checkCMS(combined, html),
                       ecommerce |-> checkEcommercePlatforms(combined, html),
                       cdn |-> checkCDNProviders(combined, headers)],
   seo |-> SeoFindings(extractJSONLDSchema(html), extractImportantMetaTags(html))]

runDetectors(html, headers) == Detections(html, Combined(html), headers)

\* [flags].filter(Boolean).length
CountTrue(flags) == Cardinality({ i \in 1..Len(flags) : flags[i] })

\* A summary whose infrastructure count also counts an identified hosting.
calculateSummaryCountingHosting(result) ==
  LET analyticsCount ==
        CountTrue(<<result.analytics.ga4.found,
                    result.analytics.gtm.found,
                    result.analytics.microsoftClarity.found,
                    result.analytics.searchConsole.found,
                    result.analytics.seoPlugin.found,
                    result.analytics.bingWebmaster.found>>)
      marketingCount ==
        Len(result.marketing.crm) + Len(result.marketing.emailMarketing)
        + Len(result.marketing.adPlatforms) + Len(result.marketing.conversionTools)
        + Len(result.marketing.widgets)
      infrastructureCount ==
        Len(result.infrastructure.cms)
        + (IF result.infrastructure.ecommerce # Null THEN 1 ELSE 0)
        + Len(result.infrastructure.cdn)
        + (IF result.infrastructure.hosting # "Unknown" THEN 1 ELSE 0)
      seoCount ==
        (IF result.seo.hasSchema THEN 1 ELSE 0)
        + (IF Truthy(result.seo.metaTags.basic.description) THEN 1 ELSE 0)
  IN [totalToolsFound |-> analyticsCount + marketingCount + infrastructureCount + seoCount,
      categories |-> [analytics |-> analyticsCount,
                      marketing |-> marketingCount,
                      infrastructure |-> infrastructureCount,
                      seo |-> seoCount]]

\* A summary whose marketing count also sums the pixel identifiers.
calculateSummaryCountingPixelIds(result) ==
  LET analyticsCount ==
        CountTrue(<<result.analytics.ga4.found,
                    result.analytics.gtm.found,
                    result.analytics.microsoftClarity.found,
                    result.analytics.searchConsole.found,
                    result.analytics.seoPlugin.found,
                    result.analytics.bingWebmaster.found>>)
      marketingCount ==
        Len(result.marketing.crm) + Len(result.marketing.emailMarketing)
        + Len(result.marketing.adPlatforms) + Len(result.marketing.pixelIds)
        + Len(result.marketing.conversionTools) + Len(result.marketing.widgets)
      infrastructureCount ==
        Len(result.infrastructure.cms)
        + (IF result.infrastructure.ecommerce # Null THEN 1 ELSE 0)
        + Len(result.infrastructure.cdn)
      seoCount ==
        (IF result.seo.hasSchema THEN 1 ELSE 0)
        + (IF Truthy(result.seo.metaTags.basic.description) THEN 1 ELSE 0)
  IN [totalToolsFound |-> analyticsCount + marketingCount + infrastructureCount + seoCount,
      categories |-> [analytics |-> analyticsCount,
                      marketing |-> marketingCount,
                      infrastructure |-> infrastructureCount,
                      seo |-> seoCount]]

calculateSummary(result) ==
  LET analyticsCount ==
        CountTrue(<<result.analytics.ga4.found,
                    result.analytics.gtm.found,
                    result.analytics.microsoftClarity.found,
                    result.analytics.searchConsole.found,
                    result.analytics.seoPlugin.found,
                    result.analytics.bingWebmaster.found>>)
      marketingCount ==
        Len(result.marketing.crm) + Len(result.marketing.emailMarketing)
        + Len(result.marketing.adPlatforms) + Len(result.marketing.conversionTools)
        + Len(result.marketing.widgets)
      infrastructureCount ==
        Len(result.infrastructure.cms)
        + (IF result.infrastructure.ecommerce # Null THEN 1 ELSE 0)
        + Len(result.infrastructure.cdn)
      seoCount ==
        (IF result.seo.hasSchema THEN 1 ELSE 0)
        + (IF Truthy(result.seo.metaTags.basic.description) THEN 1 ELSE 0)
  IN [totalToolsFound |-> analyticsCount + marketingCount + infrastructureCount + seoCount,
      categories |-> [analytics |-> analyticsCount,
                      marketing |-> marketingCount,
                      infrastructure |-> infrastructureCount,
                      seo |-> seoCount]]

\* The result object analyzeWebsite builds from the detections; summary is
\* assigned last and is NoSummary until then.
NoSummary == [totalToolsFound |-> -1,
              categories |-> [analytics |-> -1, marketing |-> -1,
                              infrastructure |-> -1, seo |-> -1]]

\* urlObj.hostname.replace(/^www\./, '') for the URLs of the inputs, which
\* have a scheme and a host and nothing after it.
Hostname(url) ==
  IF StartsWith(url, "https://") THEN SubSeq(url, 9, Len(url))
  ELSE SubSeq(url, 8, Len(url))

DomainOf(url) ==
  IF StartsWith(Hostname(url), "www.")
    THEN SubSeq(Hostname(url), 5, Len(Hostname(url)))
    ELSE Hostname(url)

\* timestamp and fetchTimeMs, readings of the clock, are left out.
ResultObject(url, detections, status, htmlSize, hosting) ==
  [url |-> url,
   domain |-> DomainOf(url),
   pageTitle |-> detections.pageTitle,
   statusCode |-> status,
   htmlSize |-> htmlSize,
   analytics |-> detections.analytics,
   marketing |-> detections.marketing,
   infrastructure |->
     [cms |-> detections.infrastructure.cms,
      ecommerce |-> detections.infrastructure.ecommerce,
      cdn |-> detections.infrastructure.cdn,
      hosting |-> hosting],
   seo |-> detections.seo,
   enhancedDetection |-> FALSE,
   summary |-> NoSummary]

\* What a call that threw gives instead of a value.
Threw == [threw |-> TRUE, value |-> Undefined]

\* The result object when the server header is read without a default:
\* headers['server'].toLowerCase() is a TypeError when the header is missing.
BuildResultServerRequired(url, html, headers, status) ==
  IF HeaderGet(headers, "server") = Null THEN Threw
  ELSE ResultObject(url, runDetectors(html, headers), status, Len(html),
                    detectHostingFromHeaders(headers, DomainOf(url)))

BuildResult(url, html, headers, status) ==
  ResultObject(url, runDetectors(html, headers), status, Len(html),
               detectHostingFromHeaders(headers, DomainOf(url)))

(***************************************************************************)
(* The enrichment merge of analyzeWebsite.  enhancedData is the value      *)
(* response.json() gave, a parsed JSON value.                              *)
(***************************************************************************)
\* Object.entries(value): the own enumerable properties, as [key, val].
\* (An object's members are taken as written: the inputs repeat no key.)
ObjectEntries(value) ==
  CASE value.t = "object" -> value.v
    [] value.t = "array" ->
         [i \in 1..Len(value.v) |-> [key |-> ToString(i - 1), val |-> value.v[i]]]
    [] value.t = "string" ->
         [i \in 1..Len(value.v) |->
            [key |-> ToString(i - 1), val |-> JVal("string", CharAt(value.v, i))]]
    [] OTHER -> <<>>

\* `${value}` for the values the inputs hold: a string as it is, a number
\* by its numeral, true, false and null by name.
TemplateString(value) ==
  CASE value.t \in {"string", "number"} -> value.v
    [] value.t = "object" -> "[object Object]"
    [] OTHER -> value.t

\* Object.entries(enhancedData.pixels).forEach(([platform, found]) => {
\*   if (found && !adPlatforms.includes(platform)) adPlatforms.push(platform) })
RECURSIVE MergePixels(_, _, _)
MergePixels(entries, k, adPlatforms) ==
  IF k > Len(entries) THEN adPlatforms
  ELSE MergePixels(entries, k + 1,
                   IF JTruthy(entries[k].val) /\ ~ListIncludes(adPlatforms, entries[k].key)
                     THEN Append(adPlatforms, entries[k].key) ELSE adPlatforms)

\* Array.isArray(ids) ? ids.map(id => `${platform}: ${id}`) : []
PlatformIds(entry) ==
  IF entry.val.t = "array"
    THEN [i \in 1..Len(entry.val.v) |->
            entry.key \o ": " \o TemplateString(entry.val.v[i])]
    ELSE <<>>

\* Object.entries(enhancedData.pixelIds).flatMap(...)
RECURSIVE FlatPixelIds(_, _)
FlatPixelIds(entries, k) ==
  IF k > Len(entries) THEN <<>>
  ELSE PlatformIds(entries[k]) \o FlatPixelIds(entries, k + 1)

\* if (enhancedData.pixels) { ... }
MergeAdPlatforms(marketing, pixels) ==
  IF JTruthy(pixels)
    THEN [marketing EXCEPT !.adPlatforms = MergePixels(ObjectEntries(pixels), 1, @)]
    ELSE marketing

\* A merge that assigns the reported identifiers instead of appending them.
MergePixelIdsAssigning(marketing, pixelIds) ==
  IF JTruthy(pixelIds)
    THEN [marketing EXCEPT !.pixelIds = FlatPixelIds(ObjectEntries(pixelIds), 1)]
    ELSE marketing

\* if (enhancedData.pixelIds) { ...pixelIds.push(...enhancedIds) }
MergePixelIds(marketing, pixelIds) ==
  IF JTruthy(pixelIds)
    THEN [marketing EXCEPT !.pixelIds = @ \o FlatPixelIds(ObjectEntries(pixelIds), 1)]
    ELSE marketing

\* The marketing findings after the merge of enhancedData (not null).
MergeEnhanced(marketing, enhancedData) ==
  MergePixelIds(MergeAdPlatforms(marketing, Property(enhancedData, "pixels")),
                Property(enhancedData, "pixelIds"))

(***************************************************************************)
(* runBrowserlessDetection and the try/catch around it.  A reply of the    *)
(* Browserless service is [kind, ok, body]: kind "network" is a request    *)
(* that fails, kind "http" a response with that ok flag and body text.     *)
(***************************************************************************)
\* return await response.json()
ResponseJson(parsed) ==
  IF ~parsed.ok THEN Threw ELSE [threw |-> FALSE, value |-> parsed.val]

\* A detection that reads the body of any response, OK or not.
runBrowserlessDetectionAnyStatus(reply) ==
  IF reply.kind = "network" THEN Threw
  ELSE ResponseJson(JSONParse(reply.body))

\* [threw, value]: threw when the promise rejects (request error, non-OK
\* response, or a body response.json() cannot parse), else the parsed body.
runBrowserlessDetection(reply) ==
  IF reply.kind = "network" THEN Threw
  ELSE IF ~reply.ok THEN Threw
  ELSE ResponseJson(JSONParse(reply.body))

\* The try block after the await and the catch: the result after them, and
\* whether the catch branch ran.  enhancedData.pixels of null is a
\* TypeError, thrown after enhancedDetection was set.
TryMerge(result, enhanced) ==
  IF enhanced.threw THEN [result |-> result, caught |-> TRUE]
  ELSE IF enhanced.value.t = "null"
    THEN [result |-> [result EXCEPT !.enhancedDetection = TRUE], caught |-> TRUE]
  ELSE [result |-> [result EXCEPT !.enhancedDetection = TRUE,
                                  !.marketing = MergeEnhanced(@, enhanced.value)],
        caught |-> FALSE]

EnhancedStep(result, reply) == TryMerge(result, runBrowserlessDetection(reply))

\* A catch block that reports every error of the fetch as a timeout.
FetchFailureAlwaysTimeout(url, error) == "Request timed out"

\* The catch block of the page fetch: the message of the error thrown.
FetchFailure(url, error) ==
  IF error.name = "AbortError" THEN "Request timed out"
  ELSE "Failed to fetch " \o url \o ": " \o error.message

AbortError == [name |-> "AbortError", message |-> "This operation was aborted"]
NetworkError == [name |-> "TypeError", message |-> "fetch failed"]

\* throw new Error(`HTTP ${response.status}: ${response.statusText}`)
StatusText(code) ==
  CASE code = 200 -> "OK" [] code = 404 -> "Not Found" [] OTHER -> ""

HttpFailure(code) == "HTTP " \o ToString(code) \o ": " \o StatusText(code)

\* if (!url.startsWith('http://') && !url.startsWith('https://'))
\*   url = 'https://' + url
NormalizeUrl(url) ==
  IF ~StartsWith(url, "http://") /\ ~StartsWith(url, "https://")
    THEN "https://" \o url ELSE url

\* Whether new URL(url) returns, for a normalized URL of the inputs: it
\* throws when no host follows the scheme.
ValidUrl(url) == url \notin {"http://", "https://"}

(***************************************************************************)
(* analyzeWebsite as a state machine                                       *)
(***************************************************************************)
VARIABLES
  url,         \* the URL, normalized once the call has started
  pc,          \* where the call is: idle, fetching, reading, detect,
               \* enriching, summary, done
  apiKey,      \* whether options.browserlessApiKey is given
  timer,       \* the timeout timer: unset, armed, fired, cleared
  status,      \* response.status
  headers,     \* Object.fromEntries(response.headers.entries())
  html,        \* await response.text()
  result,      \* the result object
  reply,       \* the reply of the Browserless service, once it came
  caught,      \* whether the catch branch of the enhanced detection ran
  failure,     \* what failed: none, network, timeout, status, body, detectors
  outcome,     \* the promise analyzeWebsite returned: [state, error]
  previous,    \* the snapshots earlier classifications of this process returned
  batch,       \* the call of analyzeBatch: its urls, i, results and position
  calls        \* the local variables of each of two calls under way at once

vars == <<url, pc, apiKey, timer, status, headers, html, result, reply, caught, failure, outcome,
          previous, batch, calls>>

\* No call of analyzeBatch is running.
NoBatch == [pc |-> "none"]

\* No two calls are under way at once.
NoCalls == <<>>

\* The URLs analyzeWebsite is called with.
Urls == {"example.com", "https://www.example.com", ""}

Pending == [state |-> "pending", error |-> ""]
Resolved == [state |-> "resolved", error |-> ""]
Rejected(error) == [state |-> "rejected", error |-> error]

NoReply == [kind |-> "none", ok |-> FALSE, body |-> ""]

\* const { browserlessApiKey = null, timeout = 30000 } = options; the URL is
\* normalized and validated; setTimeout(() => controller.abort(), timeout).
Call ==
  /\ pc = "idle"
  /\ \E key \in BOOLEAN, u \in Urls :
       /\ apiKey' = key
       /\ url' = NormalizeUrl(u)
       /\ IF ValidUrl(NormalizeUrl(u))
            THEN /\ pc' = "fetching"
                 /\ timer' = "armed"
                 /\ outcome' = outcome
            ELSE /\ pc' = "done"
                 /\ timer' = timer
                 /\ outcome' = Rejected("Invalid URL: " \o NormalizeUrl(u))
  /\ UNCHANGED <<status, headers, html, result, reply, caught, failure>>
  /\ UNCHANGED <<previous, batch, calls>>

\* The timer fires before fetch has settled: controller.abort().
Timeout ==
  /\ pc = "fetching" /\ timer = "armed"
  /\ timer' = "fired"
  /\ UNCHANGED <<url, pc, apiKey, status, headers, html, result, reply, caught, failure, outcome>>
  /\ UNCHANGED <<previous, batch, calls>>

\* A catch that rethrows without clearTimeout, with no finally.
FetchRejectTimerKept ==
  /\ pc = "fetching"
  /\ outcome' = Rejected(FetchFailure(url, IF timer = "fired" THEN AbortError
                                                              ELSE NetworkError))
  /\ failure' = IF timer = "fired" THEN "timeout" ELSE "network"
  /\ pc' = "done"
  /\ UNCHANGED <<url, apiKey, timer, status, headers, html, result, reply, caught>>
  /\ UNCHANGED <<previous, batch, calls>>

\* fetch rejects: with an AbortError after the abort, with a network error
\* otherwise.  catch and finally clear the timer.
FetchReject ==
  /\ pc = "fetching"
  /\ outcome' = Rejected(FetchFailure(url, IF timer = "fired" THEN AbortError
                                                              ELSE NetworkError))
  /\ failure' = IF timer = "fired" THEN "timeout" ELSE "network"
  /\ timer' = IF timer = "armed" THEN "cleared" ELSE timer
  /\ pc' = "done"
  /\ UNCHANGED <<url, apiKey, status, headers, html, result, reply, caught>>
  /\ UNCHANGED <<previous, batch, calls>>

(***************************************************************************)
(* Inputs                                                                  *)
(***************************************************************************)
\* The texts made of at most n of the fragments, one after the other.
RECURSIVE Texts(_, _)
Texts(frags, n) ==
  IF n = 0 THEN {""}
  ELSE LET shorter == Texts(frags, n - 1)
       IN shorter \cup { t \o f : t \in shorter, f \in frags }

\* The header objects with, for each name of names (a sequence in the
\* order Headers iterates, by name), no property or one of its values.
RECURSIVE HeaderObjects(_, _)
HeaderObjects(names, values) ==
  IF Len(names) = 0 THEN {<<>>}
  ELSE LET rest == HeaderObjects(Tail(names), values)
           name == Head(names)
       IN rest \cup { <<[name |-> name, value |-> v]>> \o h : v \in values[name], h \in rest }

\* Pages of the pipeline specification: pixel snippets in and out of scripts.
MaxPixelFrags == 2
PixelFrags == {"fbq('init','1')", "<script>fbq('init','2')</script>", "fbevents.js "}
PipelineHtmls == Texts(PixelFrags, MaxPixelFrags)

PipelineHeaders == {<<>>, <<[name |-> "cf-ray", value |-> "abc123"]>>}

\* Replies of the Browserless service: the payload runBrowserlessDetection
\* asks for, payloads that name a platform or identifier the static
\* detection already found, and bodies that are not a payload.
EnrichBodies ==
  {"{\"pixels\":{\"ga4\":false,\"facebook\":true,\"clarity\":false,\"linkedin\":true,\"tiktok\":false},\"pixelIds\":{}}",
   "{\"pixels\":{\"Facebook/Meta Pixel\":true,\"TikTok Pixel\":true},\"pixelIds\":{\"Facebook\":[\"1\",\"3\"],\"TikTok\":\"7\"}}",
   "{\"pixelIds\":{\"Facebook\":[\"3\"]}}",
   "{}", "null", "{\"pixels\":"}

Replies ==
  {[kind |-> "network", ok |-> FALSE, body |-> ""]}
  \cup [kind : {"http"}, ok : BOOLEAN, body : EnrichBodies]

(***************************************************************************)
(* analyzeWebsite, continued                                               *)
(***************************************************************************)
\* A fetch whose response is read whatever its status.
FetchResolveAnyStatus ==
  /\ pc = "fetching" /\ timer = "armed"
  /\ timer' = "cleared"
  /\ \E code \in {200, 404}, h \in PipelineHeaders :
       /\ status' = code
       /\ headers' = h
       /\ pc' = "reading"
       /\ UNCHANGED <<failure, outcome>>
  /\ UNCHANGED <<url, apiKey, html, result, reply, caught>>
  /\ UNCHANGED <<previous, batch, calls>>

\* fetch resolves before the timer fires; finally clears the timer; a
\* response that is not ok is thrown as HTTP <status>.
FetchResolve ==
  /\ pc = "fetching" /\ timer = "armed"
  /\ timer' = "cleared"
  /\ \E code \in {200, 404}, h \in PipelineHeaders :
       /\ status' = code
       /\ headers' = h
       /\ IF code \in 200..299
            THEN /\ pc' = "reading"
                 /\ UNCHANGED <<failure, outcome>>
            ELSE /\ pc' = "done"
                 /\ failure' = "status"
                 /\ outcome' = Rejected(HttpFailure(code))
  /\ UNCHANGED <<url, apiKey, html, result, reply, caught>>
  /\ UNCHANGED <<previous, batch, calls>>

\* const html = await response.text()
ReadBody ==
  /\ pc = "reading"
  /\ \E body \in PipelineHtmls : html' = body
  /\ pc' = "detect"
  /\ UNCHANGED <<url, apiKey, timer, status, headers, result, reply, caught, failure, outcome>>
  /\ UNCHANGED <<previous, batch, calls>>

\* response.text() rejects: nothing catches it.
ReadBodyFail ==
  /\ pc = "reading"
  /\ pc' = "done"
  /\ failure' = "body"
  /\ outcome' = Rejected("body")
  /\ UNCHANGED <<url, apiKey, timer, status, headers, html, result, reply, caught>>
  /\ UNCHANGED <<previous, batch, calls>>

\* What follows the detectors: built is the result object, or Threw when a
\* detector threw.  No try encloses runDetectors and
\* detectHostingFromHeaders, so an exception rejects the promise.
Detected(built) ==
  IF built = Threw
    THEN /\ pc' = "done"
         /\ failure' = "detectors"
         /\ outcome' = Rejected("TypeError")
         /\ UNCHANGED result
    ELSE /\ result' = built
         /\ pc' = IF apiKey THEN "enriching" ELSE "summary"
         /\ UNCHANGED <<failure, outcome>>

\* The result object when the patterns of checkSEOPlugins are RegExp objects
\* shared by all calls: test() on a global pattern starts at the lastIndex
\* the call before left, past its match, and finds nothing.
SharedPatterns(built) ==
  IF Len(previous) > 0 /\ previous[Len(previous)].result.analytics.seoPlugin.found
    THEN [built EXCEPT !.analytics.seoPlugin = [found |-> FALSE, plugins |-> <<>>]]
    ELSE built

RunDetectorsSharedPatterns ==
  /\ pc = "detect"
  /\ Detected(SharedPatterns(BuildResult(url, html, headers, status)))
  /\ UNCHANGED <<url, apiKey, timer, status, headers, html, reply, caught>>
  /\ UNCHANGED <<previous, batch, calls>>

\* runDetectors and the result object; then the enhanced detection is
\* awaited if a key was given.
RunDetectors ==
  /\ pc = "detect"
  /\ Detected(BuildResult(url, html, headers, status))
  /\ UNCHANGED <<url, apiKey, timer, status, headers, html, reply, caught>>
  /\ UNCHANGED <<previous, batch, calls>>

\* The Browserless service replies, or the request fails; try and catch run.
Enrich ==
  /\ pc = "enriching"
  /\ \E r \in Replies :
       /\ reply' = r
       /\ result' = EnhancedStep(result, r).result
       /\ caught' = EnhancedStep(result, r).caught
  /\ pc' = "summary"
  /\ UNCHANGED <<url, apiKey, timer, status, headers, html, failure, outcome>>
  /\ UNCHANGED <<previous, batch, calls>>

\* result.summary = calculateSummary(result); return result
CalculateSummary ==
  /\ pc = "summary"
  /\ result' = [result EXCEPT !.summary = calculateSummary(result)]
  /\ outcome' = Resolved
  /\ pc' = "done"
  /\ UNCHANGED <<url, apiKey, timer, status, headers, html, reply, caught, failure>>
  /\ UNCHANGED <<previous, batch, calls>>

Init ==
  /\ url = ""
  /\ pc = "idle"
  /\ apiKey = FALSE
  /\ timer = "unset"
  /\ status = 0
  /\ headers = <<>>
  /\ html = ""
  /\ result = Null
  /\ reply = NoReply
  /\ caught = FALSE
  /\ failure = "none"
  /\ outcome = Pending
  /\ previous = <<>>
  /\ batch = NoBatch
  /\ calls = NoCalls

Next ==
  \/ Call
  \/ Timeout
  \/ FetchReject
  \/ FetchResolve
  \/ ReadBody
  \/ ReadBodyFail
  \/ RunDetectors
  \/ Enrich
  \/ CalculateSummary

\* One call of analyzeWebsite.
Spec == Init /\ [][Next]_vars

(***************************************************************************)
(* The classification alone: the state after a page was fetched and read,  *)
(* no API key given, with the page and the headers drawn from a family.    *)
(***************************************************************************)
FetchedWithKey(htmls, headerObjects, keys) ==
  /\ url = "https://example.com"
  /\ pc = "detect"
  /\ apiKey \in keys
  /\ timer = "cleared"
  /\ status = 200
  /\ headers \in headerObjects
  /\ html \in htmls
  /\ result = Null
  /\ reply = NoReply
  /\ caught = FALSE
  /\ failure = "none"
  /\ outcome = Pending
  /\ previous = <<>>
  /\ batch = NoBatch
  /\ calls = NoCalls

Fetched(htmls, headerObjects) == FetchedWithKey(htmls, headerObjects, {FALSE})

NextDetect ==
  \/ RunDetectors
  \/ CalculateSummary

\* Pages with GA4, GTM and pixel identifiers, flanked or not.
MaxIdFrags == 3
IdFrags == {"G-ABCDEFGH", "g-abcd1234", "GTM-ABCDE", " ", "x", "fbq('init','1')",
            "<script>", "</script>"}

InitIds == Fetched(Texts(IdFrags, MaxIdFrags), {<<>>})

SpecIds == InitIds /\ [][NextDetect]_vars

\* Pages with the markers of the tool catalogs: two rules of one tool,
\* tools against their catalog order, upper case, markers in a script.
MaxToolFrags == 2
ToolFrags == {"wp-content/", "cdn.shopify.com", "woocommerce",
              "hubspot", "pardot.com HS-SCRIPTS.COM",
              "brevo.com klaviyo.com fbq ( fastly.net cloudfront.net",
              "vwo.com hotjar.js tawk.to intercom.io",
              "<script>Magento drupalSettings wix.com</script>"}

ToolHeaders == {<<>>, <<[name |-> "cf-ray", value |-> "abc123"]>>}

InitTools == Fetched(Texts(ToolFrags, MaxToolFrags), ToolHeaders)

SpecTools == InitTools /\ [][NextDetect]_vars

\* Header objects with the markers of the hosting rules, absent, empty or
\* set, in the order Headers iterates (by name).
HostingNames == <<"cf-ray", "server", "x-github-request", "x-nf-request-id", "x-vercel-id">>
HostingValues ==
  [name \in {"cf-ray", "server", "x-github-request", "x-nf-request-id", "x-vercel-id"} |->
     CASE name = "cf-ray" -> {"", "abc123"}
       [] name = "server" -> {"nginx/1.25", "Apache", "gws"}
       [] name = "x-nf-request-id" -> {"", "01HX"}
       [] OTHER -> {"1"}]

InitHosting == Fetched({""}, HeaderObjects(HostingNames, HostingValues))

SpecHosting == InitHosting /\ [][NextDetect]_vars

\* Pages with tools of every group of the summary, analyzed with and
\* without an API key.
MaxSummaryFrags == 2
SummaryFrags ==
  {"googletagmanager.com/gtm.js clarity.ms hubspot",
   "cdn.shopify.com wp-content/ fbq('init','1')",
   "G-ABCDEFGH klaviyo.com tawk.to",
   "<meta name='description' content='d'><meta name='google-site-verification' content='a'>",
   "yoast.com cloudfront.net"}

InitSummary == FetchedWithKey(Texts(SummaryFrags, MaxSummaryFrags), ToolHeaders, BOOLEAN)

NextEnrich ==
  \/ RunDetectors
  \/ Enrich
  \/ CalculateSummary

SpecSummary == InitSummary /\ [][NextEnrich]_vars

\* The classification called again in the same process, as analyzeBatch does
\* for its next URL: the page and the headers of the next response, the
\* same or others, reach the detectors after the snapshot was returned.
MaxCalls == 2
RepeatHtmls == {"", "rankmath yoast seo", "<script>G-ABCDEFGH</script>hubspot",
                "<script type='application/ld+json'>{\"@type\":\"Article\"}</script>"}

Again ==
  /\ pc = "done" /\ outcome = Resolved
  /\ Len(previous) < MaxCalls - 1
  /\ previous' = Append(previous, [html |-> html, headers |-> headers, result |-> result])
  /\ html' \in RepeatHtmls
  /\ headers' \in ToolHeaders
  /\ pc' = "detect"
  /\ result' = Null
  /\ outcome' = Pending
  /\ UNCHANGED <<url, apiKey, timer, status, reply, caught, failure, batch, calls>>

InitRepeat == Fetched(RepeatHtmls, ToolHeaders)

NextRepeat ==
  \/ RunDetectors
  \/ CalculateSummary
  \/ Again

SpecRepeat == InitRepeat /\ [][NextRepeat]_vars

\* Pages and header objects that could make a detector fail: unterminated
\* tags, ld+json bodies that are not JSON or not an object, header objects
\* without the keys the hosting rules read.
SafeHtmls == {"", "<script>", "<title>", "<meta name='description' content='",
              "<script type='application/ld+json'>{\"@type\":</script>",
              "<script type='application/ld+json'>null</script>",
              "hubspot G-ABCDEFGH"}
SafeNames == <<"server", "x-github-request", "x-powered-by">>
SafeValues ==
  [name \in {"server", "x-github-request", "x-powered-by"} |->
     CASE name = "server" -> {"", "nginx", "gws"}
       [] name = "x-github-request" -> {"1"}
       [] OTHER -> {"PHP"}]

InitSafe == Fetched(SafeHtmls, HeaderObjects(SafeNames, SafeValues))

SpecSafe == InitSafe /\ [][NextDetect]_vars

\* Pages made of ld+json blocks and meta tags.  Each part is listed with
\* what it declares: whether its body is JSON, the @type it declares (the
\* first element of a sequence; undefined for the empty sequence), and
\* whether it is a meta description tag.
SeoPart(text, json, declares, type, description) ==
  [text |-> text, json |-> json, declares |-> declares, type |-> type,
   description |-> description]

SeoParts ==
  {SeoPart("<script type='application/ld+json'>{\"@type\":\"Article\"}</script>",
           TRUE, TRUE, JVal("string", "Article"), FALSE),
   SeoPart("<script type=\"application/ld+json\"> {\"@type\":[\"Product\",\"Offer\"]} </script>",
           TRUE, TRUE, JVal("string", "Product"), FALSE),
   SeoPart("<script type='application/ld+json'>{\"@type\":\"Event\"</script>",
           FALSE, FALSE, Undefined, FALSE),
   SeoPart("<script type='application/ld+json'>null</script>",
           TRUE, FALSE, Undefined, FALSE),
   SeoPart("<script type='application/ld+json'>{\"name\":\"Event\"}</script>",
           TRUE, FALSE, Undefined, FALSE),
   SeoPart("<script type='application/ld+json'>{\"@type\":[]}</script>",
           TRUE, TRUE, Undefined, FALSE),
   SeoPart("<meta name='description' content=''>", FALSE, FALSE, Undefined, TRUE),
   SeoPart("<meta name=\"description\" content=\"d\">", FALSE, FALSE, Undefined, TRUE)}

MaxSeoFrags == 2
SeoFrags == { part.text : part \in SeoParts }

InitSeo == Fetched(Texts(SeoFrags, MaxSeoFrags), {<<>>})

SpecSeo == InitSeo /\ [][NextDetect]_vars

\* Pages with the markers of Microsoft Clarity, the verification tags and the
\* SEO plugins: a Clarity tag in lower and in upper case, a verification
\* tag with and without content.
MaxAnalyticsFrags == 2
AnalyticsFrags ==
  {"clarity.ms/tag/abcdef", "CLARITY.MS/tag/abcdef", "clarity.ms ",
   "<meta name='google-site-verification' content='a'>",
   "<meta name='google-site-verification' content=''>",
   "<META NAME=\"msvalidate.01\" CONTENT=\"b\">",
   "rankmath Yoast  SEO"}

InitAnalytics == Fetched(Texts(AnalyticsFrags, MaxAnalyticsFrags), {<<>>})

SpecAnalytics == InitAnalytics /\ [][NextDetect]_vars

(***************************************************************************)
(* analyzeAndSave and analyzeBatch (index.js).  batch holds the call of    *)
(* analyzeBatch: urls, includeJson, the loop index i, results, the         *)
(* position pc (analysis, mkdir, markdown, json, delay, returned,          *)
(* rejected), how the analyzeWebsite of each URL settled (analyses), the   *)
(* snapshot of the analysis under way, the files written, each with the    *)
(* index of its URL,                                                       *)
(* and a log of what happened: a URL's analyzeAndSave started or settled,  *)
(* the delay after it started or elapsed.                                  *)
(***************************************************************************)
site == <<url, pc, apiKey, timer, status, headers, html, result, reply, caught, failure,
          outcome, previous, calls>>

\* The URLs analyzeBatch is called with: one that analyzeWebsite accepts,
\* one it rejects as invalid.
BatchUrls == {"example.com", ""}
MaxUrls == 2
UrlLists == UNION { [1..n -> BatchUrls] : n \in 0..MaxUrls }

ResolvedWith(value) == [state |-> "resolved", error |-> "", value |-> value]

\* How analyzeWebsite(u) can settle: rejected for an invalid URL, a fetch
\* that timed out or a response that is not ok; resolved with the snapshot
\* of the page (here the empty page, status 200, no headers).
Snapshot(u) ==
  [BuildResult(NormalizeUrl(u), "", <<>>, 200)
     EXCEPT !.summary = calculateSummary(BuildResult(NormalizeUrl(u), "", <<>>, 200))]

AnalysisOutcomes(u) ==
  IF ~ValidUrl(NormalizeUrl(u))
    THEN {Rejected("Invalid URL: " \o NormalizeUrl(u))}
    ELSE {Rejected(FetchFailure(NormalizeUrl(u), AbortError)),
          Rejected(HttpFailure(404)),
          ResolvedWith(Snapshot(u))}

\* new Date().toISOString().split('T')[0], a reading of the clock.
Today == "2024-01-01"

\* path.join(outputDir, `${baseFilename}.md`) and the .json path, with the
\* default outputDir './reports' and no filename option.
MdPath(snapshot) == "reports/" \o snapshot.domain \o "-" \o Today \o ".md"
JsonPath(snapshot) == "reports/" \o snapshot.domain \o "-" \o Today \o ".json"

\* The message of the error of a writeFile that fails.
WriteError(path) == "EACCES: permission denied, open '" \o path \o "'"

Event(kind, index, promise) == [event |-> kind, index |-> index, promise |-> promise]

Logged(b, kind, promise) == [b EXCEPT !.log = Append(@, Event(kind, b.i, promise))]

\* for (let i = 0; i < urls.length; i++): the test, then the call of
\* analyzeAndSave, which runs up to its await of analyzeWebsite; after the
\* loop, return results.
Loop(b) ==
  IF b.i < Len(b.urls)
    THEN [Logged(b, "start", Pending) EXCEPT !.pc = "analysis"]
    ELSE [b EXCEPT !.pc = "returned"]

\* A loop body that waits the delay after every URL, the last included.
PushedDelayAlways(b, entry) ==
  [Logged(b, "delay", Pending) EXCEPT !.results = Append(@, entry), !.pc = "delay"]

\* results.push(entry); if (i < urls.length - 1) await the delay; i++
Pushed(b, entry) ==
  IF b.i < Len(b.urls) - 1
    THEN [Logged(b, "delay", Pending) EXCEPT !.results = Append(@, entry), !.pc = "delay"]
    ELSE Loop([b EXCEPT !.results = Append(@, entry), !.i = @ + 1])

\* A loop body without the catch: a rejection of analyzeAndSave rejects
\* analyzeBatch.
SettledUncaught(b, promise) ==
  IF promise.state = "resolved"
    THEN Pushed(Logged(b, "settled", promise),
                [url |-> b.urls[b.i + 1], success |-> TRUE,
                 result |-> promise.value.result, files |-> promise.value.files])
    ELSE [Logged(b, "settled", promise) EXCEPT !.pc = "rejected"]

\* try { const result = await analyzeAndSave(url, options);
\*       results.push({ url, success: true, ...result }) }
\* catch (error) { results.push({ url, success: false, error: error.message }) }
Settled(b, promise) ==
  IF promise.state = "resolved"
    THEN Pushed(Logged(b, "settled", promise),
                [url |-> b.urls[b.i + 1], success |-> TRUE,
                 result |-> promise.value.result, files |-> promise.value.files])
    ELSE Pushed(Logged(b, "settled", promise),
                [url |-> b.urls[b.i + 1], success |-> FALSE, error |-> promise.error])

\* analyzeBatch(urls, options) is called.
BatchCall ==
  /\ batch.pc = "none"
  /\ \E urls \in UrlLists, includeJson \in BOOLEAN :
       batch' = Loop([pc |-> "loop", urls |-> urls, includeJson |-> includeJson, i |-> 0,
                      results |-> <<>>, analyses |-> <<>>, snapshot |-> Null,
                      files |-> <<>>, log |-> <<>>])
  /\ UNCHANGED site

\* analyzeWebsite settles: analyzeAndSave goes on to mkdir, or rejects.
AnalysisSettles ==
  /\ batch.pc = "analysis"
  /\ \E promise \in AnalysisOutcomes(batch.urls[batch.i + 1]) :
       batch' = IF promise.state = "resolved"
                  THEN [batch EXCEPT !.pc = "mkdir", !.snapshot = promise.value,
                                     !.analyses = Append(@, promise)]
                  ELSE Settled([batch EXCEPT !.analyses = Append(@, promise)], promise)
  /\ UNCHANGED site

\* await fs.mkdir(outputDir, { recursive: true }), its error swallowed; the
\* markdown report is formatted and its write begins.
Mkdir ==
  /\ batch.pc = "mkdir"
  /\ batch' = [batch EXCEPT !.pc = "markdown"]
  /\ UNCHANGED site

\* A file written during the analyzeAndSave of the URL of index b.i.
File(b, path) == [index |-> b.i, path |-> path]

\* A return value that names the JSON path whether or not it was written.
SavedJsonAlways(snapshot, savedJsonPath) ==
  ResolvedWith([result |-> snapshot,
                files |-> [markdown |-> MdPath(snapshot),
                           json |-> Some(JsonPath(snapshot))]])

\* What analyzeAndSave returns: { result, files: { markdown, json } }.
Saved(snapshot, savedJsonPath) ==
  ResolvedWith([result |-> snapshot,
                files |-> [markdown |-> MdPath(snapshot), json |-> savedJsonPath]])

\* await fs.writeFile(mdPath, markdown, 'utf8') settles.
WriteMarkdown ==
  /\ batch.pc = "markdown"
  /\ \E written \in BOOLEAN :
       batch' =
         IF ~written THEN Settled(batch, Rejected(WriteError(MdPath(batch.snapshot))))
         ELSE IF batch.includeJson
           THEN [batch EXCEPT !.pc = "json",
                              !.files = Append(@, File(batch, MdPath(batch.snapshot)))]
           ELSE Settled([batch EXCEPT !.files = Append(@, File(batch, MdPath(batch.snapshot)))],
                        Saved(batch.snapshot, Null))
  /\ UNCHANGED site

\* await fs.writeFile(jsonPath, JSON.stringify(result, null, 2), 'utf8')
\* settles.
WriteJson ==
  /\ batch.pc = "json"
  /\ \E written \in BOOLEAN :
       batch' =
         IF ~written THEN Settled(batch, Rejected(WriteError(JsonPath(batch.snapshot))))
         ELSE Settled([batch EXCEPT !.files = Append(@, File(batch, JsonPath(batch.snapshot)))],
                      Saved(batch.snapshot, Some(JsonPath(batch.snapshot))))
  /\ UNCHANGED site

\* The timer of the delay fires: i++ and the next turn of the loop.
DelayElapses ==
  /\ batch.pc = "delay"
  /\ batch' = Loop([Logged(batch, "elapsed", Pending) EXCEPT !.i = @ + 1])
  /\ UNCHANGED site

NextBatch ==
  \/ BatchCall
  \/ AnalysisSettles
  \/ Mkdir
  \/ WriteMarkdown
  \/ WriteJson
  \/ DelayElapses

\* One call of analyzeBatch.
SpecBatch == Init /\ [][NextBatch]_vars

(***************************************************************************)
(* Two calls of analyzeWebsite under way at once.  Node runs one call     *)
(* until it awaits: the fetch, the body, the Browserless reply.  Between   *)
(* two awaits of one call the other call may run.  Every variable of       *)
(* analyzeWebsite is a const or let of the call; detector.js declares no   *)
(* variable outside its functions.  calls[i] holds the locals of call i;   *)
(* overlapped records that a step of the call ran while the other call     *)
(* was suspended at an await.                                              *)
(***************************************************************************)
single == <<url, pc, apiKey, timer, status, headers, html, result, reply, caught, failure,
            outcome, previous, batch>>

\* The URL each of the two calls is made with.
PairUrls == <<"example.com", "example.org">>
Callers == DOMAIN PairUrls

PairHtmls == {"", "fbq('init','1')"}

PairResponses ==
  {[kind |-> "error", status |-> 0], [kind |-> "response", status |-> 404],
   [kind |-> "response", status |-> 200]}

PairReplies ==
  {[kind |-> "network", ok |-> FALSE, body |-> ""],
   [kind |-> "http", ok |-> TRUE,
    body |-> "{\"pixels\":{\"ga4\":false,\"facebook\":true,\"clarity\":false,\"linkedin\":true,\"tiktok\":false},\"pixelIds\":{}}"]}

NotCalled ==
  [pc |-> "idle", url |-> "", apiKey |-> FALSE, timer |-> "unset", status |-> 0,
   headers |-> <<>>, html |-> "", result |-> Null, reply |-> NoReply, caught |-> FALSE,
   outcome |-> Pending, overlapped |-> FALSE]

Suspended(c) == c.pc \in {"fetching", "reading", "enriching"}

\* The locals of a call after the lines up to await fetch.
Called(c, u, key) ==
  IF ValidUrl(NormalizeUrl(u))
    THEN [c EXCEPT !.pc = "fetching", !.url = NormalizeUrl(u), !.apiKey = key,
                   !.timer = "armed"]
    ELSE [c EXCEPT !.pc = "done", !.url = NormalizeUrl(u), !.apiKey = key,
                   !.outcome = Rejected("Invalid URL: " \o NormalizeUrl(u))]

\* The locals of a call after fetch settled, up to await response.text().
FetchSettled(c, response) ==
  IF response.kind = "error"
    THEN [c EXCEPT !.pc = "done", !.timer = "cleared",
                   !.outcome = Rejected(FetchFailure(c.url, NetworkError))]
    ELSE IF response.status \in 200..299
      THEN [c EXCEPT !.pc = "reading", !.timer = "cleared", !.status = response.status]
      ELSE [c EXCEPT !.pc = "done", !.timer = "cleared", !.status = response.status,
                     !.outcome = Rejected(HttpFailure(response.status))]

\* result.summary = calculateSummary(result); return result
Summarised(c, snapshot) ==
  [c EXCEPT !.result = [snapshot EXCEPT !.summary = calculateSummary(snapshot)],
            !.outcome = Resolved, !.pc = "done"]

\* The locals of a call once the body came and the detectors built the
\* result: it awaits the Browserless reply if it has a key, returns if not.
BodyRead(c, body, built) ==
  IF built = Threw
    THEN [c EXCEPT !.html = body, !.pc = "done", !.outcome = Rejected("TypeError")]
    ELSE IF c.apiKey
      THEN [c EXCEPT !.html = body, !.pc = "enriching", !.result = built]
      ELSE Summarised([c EXCEPT !.html = body], built)

\* The locals of a call after the try or the catch of the enhanced detection.
AfterReply(c, r, step) == Summarised([c EXCEPT !.reply = r, !.caught = step.caught], step.result)

Replied(c, r) == AfterReply(c, r, EnhancedStep(c.result, r))

\* A call as it goes on after an await, the other call suspended or not.
Resumed(cs, i, c) ==
  [c EXCEPT !.overlapped = @ \/ \E j \in Callers \ {i} : Suspended(cs[j])]

\* The calls after call i read its body, were the result object one
\* variable of the module and not a const of the call: the other call,
\* suspended at its enhanced detection, goes on with this call's object.
AfterBodySharedResult(cs, i, body) ==
  [j \in Callers |->
     IF j = i THEN Resumed(cs, i, BodyRead(cs[i], body,
                                           BuildResult(cs[i].url, body, cs[i].headers, cs[i].status)))
     ELSE IF cs[j].pc = "enriching"
       THEN [cs[j] EXCEPT !.result = BuildResult(cs[i].url, body, cs[i].headers, cs[i].status)]
       ELSE cs[j]]

\* The calls after call i read its body: html and result are consts of
\* the call.
AfterBody(cs, i, body) ==
  [cs EXCEPT ![i] = Resumed(cs, i, BodyRead(cs[i], body,
                                            BuildResult(cs[i].url, body, cs[i].headers, cs[i].status)))]

PairCall ==
  /\ \E i \in Callers, key \in BOOLEAN :
       /\ calls[i].pc = "idle"
       /\ calls' = [calls EXCEPT ![i] = Resumed(calls, i, Called(calls[i], PairUrls[i], key))]
  /\ UNCHANGED single

PairFetchSettles ==
  /\ \E i \in Callers, response \in PairResponses :
       /\ calls[i].pc = "fetching"
       /\ calls' = [calls EXCEPT ![i] = Resumed(calls, i, FetchSettled(calls[i], response))]
  /\ UNCHANGED single

PairReadBody ==
  /\ \E i \in Callers, body \in PairHtmls :
       /\ calls[i].pc = "reading"
       /\ calls' = AfterBody(calls, i, body)
  /\ UNCHANGED single

PairEnrich ==
  /\ \E i \in Callers, r \in PairReplies :
       /\ calls[i].pc = "enriching"
       /\ calls' = [calls EXCEPT ![i] = Resumed(calls, i, Replied(calls[i], r))]
  /\ UNCHANGED single

InitPair ==
  /\ url = "" /\ pc = "idle" /\ apiKey = FALSE /\ timer = "unset"
  /\ status = 0 /\ headers = <<>> /\ html = "" /\ result = Null
  /\ reply = NoReply /\ caught = FALSE /\ failure = "none" /\ outcome = Pending
  /\ previous = <<>> /\ batch = NoBatch
  /\ calls = [i \in Callers |-> NotCalled]

NextPair ==
  \/ PairCall
  \/ PairFetchSettles
  \/ PairReadBody
  \/ PairEnrich

\* Two calls of analyzeWebsite, interleaved at their awaits.
SpecPair == InitPair /\ [][NextPair]_vars

(***************************************************************************)
(* Properties                                                              *)
(***************************************************************************)
\* The result object exists: runDetectors has run in this call.
HasResult == pc \in {"enriching", "summary"} \/ (pc = "done" /\ outcome = Resolved)

\* analyzeWebsite has returned its snapshot.
Returned == pc = "done" /\ outcome = Resolved

\* The snapshot of the same analysis without an API key.
StaticResult == BuildResult(url, html, headers, status)

NoDuplicates(list) == \A i, j \in 1..Len(list) : list[i] = list[j] => i = j

IsPrefix(a, b) == Len(a) <= Len(b) /\ SubSeq(b, 1, Len(a)) = a

\* C1: a corpus with a flanked GA4 or GTM identifier is reported as found:
\* measurementIds non-empty implies ga4.found, containerIds non-empty
\* implies gtm.found.  The code does not keep it: found reads
\* other patterns than the identifier lists do.
C1_IdentifiedImpliesFound ==
  HasResult =>
    /\ Len(result.analytics.ga4.measurementIds) > 0 => result.analytics.ga4.found
    /\ Len(result.analytics.gtm.containerIds) > 0 => result.analytics.gtm.found

\* C2: no identifier list of the result holds the same string twice.  The
\* code does not keep it for marketing.pixelIds.
C2_NoRepeatedIdentifier ==
  HasResult =>
    /\ NoDuplicates(result.analytics.ga4.measurementIds)
    /\ NoDuplicates(result.analytics.gtm.containerIds)
    /\ NoDuplicates(result.marketing.pixelIds)

\* The identifier tokens: prefix, then lo..hi letters or digits, between a
\* left and a right boundary character or the start and end of the string.
GA4Token == [prefix |-> "G-", lo |-> 8, hi |-> 12,
             left |-> Quotes \cup WhiteSpace \cup {",", ";", "("},
             right |-> Quotes \cup WhiteSpace \cup {",", ";", ")"}]
GTMToken == [prefix |-> "GTM-", lo |-> 5, hi |-> 8,
             left |-> Quotes \cup WhiteSpace \cup {",", ";", "(", "?"},
             right |-> Quotes \cup WhiteSpace \cup {",", ";", ")", "?"}]

IsAlnum(c) == LowerChar(c) \in CharsOf(Lowers) \cup DigitSet

\* The end of the run of letters and digits that starts at position i.
RunEnd(s, i) ==
  Least({ n \in i..Len(s) : ~IsAlnum(CharAt(s, n)) }, Len(s) + 1)

\* A flanked identifier of the token starts at position p of s.
FlankedAt(s, p, token) ==
  LET b == p + Len(token.prefix)
      e == RunEnd(s, b)
  IN /\ b - 1 <= Len(s)
     /\ ToLower(SubSeq(s, p, b - 1)) = ToLower(token.prefix)
     /\ (p = 1 \/ CharAt(s, p - 1) \in token.left)
     /\ (e - b) \in token.lo..token.hi
     /\ (e = Len(s) + 1 \/ CharAt(s, e) \in token.right)

\* The distinct flanked identifiers of s from position p on, after ids, in
\* the order of their first occurrence.
RECURSIVE FlankedFrom(_, _, _, _)
FlankedFrom(s, p, token, ids) ==
  IF p > Len(s) THEN ids
  ELSE LET id == SubSeq(s, p, RunEnd(s, p + Len(token.prefix)) - 1)
       IN FlankedFrom(s, p + 1, token,
                      IF FlankedAt(s, p, token) /\ ~ListIncludes(ids, id)
                        THEN Append(ids, id) ELSE ids)

FlankedIds(s, token) == FlankedFrom(s, 1, token, <<>>)

\* C3: the GA4 and GTM identifier lists hold every distinct flanked
\* identifier of the corpus, in order of first occurrence.  The code does
\* not keep it when one delimiter separates two identifiers.
C3_EveryFlankedIdentifier ==
  HasResult =>
    /\ result.analytics.ga4.measurementIds = FlankedIds(Combined(html), GA4Token)
    /\ result.analytics.gtm.containerIds = FlankedIds(Combined(html), GTMToken)

\* The enhanced detection merged its payload into the result.
Merged == pc \in {"summary", "done"} /\ reply.kind = "http" /\ ~caught

\* C4: merging the payload a second time changes neither adPlatforms nor
\* pixelIds.  The code does not keep it for pixelIds.
C4_MergeIdempotent ==
  Merged =>
    /\ MergeEnhanced(result.marketing, JSONParse(reply.body).val).adPlatforms
         = result.marketing.adPlatforms
    /\ MergeEnhanced(result.marketing, JSONParse(reply.body).val).pixelIds
         = result.marketing.pixelIds

\* C5: the merge step only appends to adPlatforms and pixelIds and changes
\* no other finding.
C5_MergeOnlyAppends ==
  [][pc = "enriching" =>
       /\ IsPrefix(result.marketing.adPlatforms, result'.marketing.adPlatforms)
       /\ IsPrefix(result.marketing.pixelIds, result'.marketing.pixelIds)
       /\ result'.analytics = result.analytics
       /\ result'.marketing.crm = result.marketing.crm
       /\ result'.marketing.emailMarketing = result.marketing.emailMarketing
       /\ result'.marketing.conversionTools = result.marketing.conversionTools
       /\ result'.marketing.widgets = result.marketing.widgets
       /\ result'.infrastructure = result.infrastructure
       /\ result'.seo = result.seo]_vars

\* A merge that appended to both lists, after the ones the page gave.
C5_Witness ==
  /\ Merged
  /\ Len(StaticResult.marketing.adPlatforms) > 0
  /\ Len(StaticResult.marketing.pixelIds) > 0
  /\ Len(result.marketing.adPlatforms) > Len(StaticResult.marketing.adPlatforms)
  /\ Len(result.marketing.pixelIds) > Len(StaticResult.marketing.pixelIds)

\* The Enhanced Detector failed: the request failed, the response was not
\* OK, or its body was not JSON or not an object to read a payload from.
EnhancedFailed ==
  \/ reply.kind = "network"
  \/ /\ reply.kind = "http"
     /\ \/ ~reply.ok
        \/ ~JSONParse(reply.body).ok
        \/ JSONParse(reply.body).val.t = "null"

\* The findings and the summary of a returned snapshot are those of the
\* snapshot static, returned without enrichment.
SameFindings(snapshot, static) ==
  /\ snapshot.analytics = static.analytics
  /\ snapshot.marketing = static.marketing
  /\ snapshot.infrastructure = static.infrastructure
  /\ snapshot.seo = static.seo
  /\ snapshot.summary = calculateSummary(static)

\* C6: with an API key and a failed Enhanced Detector the call resolves
\* with the findings and the summary of the analysis without a key, and
\* the result of classification exists before the enhanced request.
C6_FailureKeepsStatic ==
  /\ pc = "enriching" => reply = NoReply /\ result = StaticResult
  /\ (pc = "done" /\ apiKey /\ EnhancedFailed) =>
       outcome = Resolved /\ SameFindings(result, StaticResult)

\* A non-OK response whose body held a payload, on a page with a pixel.
C6_Witness ==
  /\ pc = "done" /\ apiKey /\ outcome = Resolved
  /\ reply.kind = "http" /\ ~reply.ok /\ JSONParse(reply.body).ok
  /\ Len(result.marketing.adPlatforms) > 0

\* C7 as stated: a failure of the Enhanced Detector is surfaced to the
\* caller, as a failure of its own kind.
C7_EnrichmentFailureSurfaced ==
  (pc = "done" /\ apiKey /\ EnhancedFailed) => outcome.state = "rejected"

\* C7, amended: a failure of the Fetcher rejects the call with a message
\* of its kind (timeout, network failure, non-2xx status); a failure of
\* the Enhanced Detector is caught and the call resolves.
C7_FetchFailuresReject ==
  pc = "done" =>
    /\ failure = "timeout" => outcome = Rejected("Request timed out")
    /\ failure = "network" =>
         /\ outcome.state = "rejected"
         /\ StartsWith(outcome.error, "Failed to fetch " \o url)
    /\ failure = "status" =>
         /\ outcome.state = "rejected"
         /\ StartsWith(outcome.error, "HTTP " \o ToString(status))
    /\ reply.kind # "none" => outcome = Resolved /\ caught = EnhancedFailed

\* A request to the Enhanced Detector that failed, and a resolved call.
C7_Witness ==
  pc = "done" /\ apiKey /\ reply.kind = "network" /\ caught /\ outcome = Resolved

\* The hosting markers in the order of the decision list.
HostingMarkers == <<[header |-> "cf-ray", label |-> "Cloudflare"],
                    [header |-> "x-vercel-id", label |-> "Vercel"],
                    [header |-> "x-nf-request-id", label |-> "Netlify"],
                    [header |-> "x-github-request", label |-> "GitHub Pages"]>>
ServerMarkers == <<[word |-> "nginx", label |-> "Nginx"],
                   [word |-> "apache", label |-> "Apache"]>>
HostingLabels == {"Cloudflare", "Vercel", "Netlify", "GitHub Pages", "Nginx",
                  "Apache", "Unknown"}

Present(h, name) == \E i \in 1..Len(h) : h[i].name = name
NonEmpty(h, name) == \E i \in 1..Len(h) : h[i].name = name /\ h[i].value # ""
ServerContains(h, word) ==
  \E i \in 1..Len(h) : h[i].name = "server" /\ Includes(ToLower(h[i].value), word)

\* The label of the first entry of the decision list that applies, where
\* marked[k] tells whether the k-th marker header applies.
FirstLabel(h, marked) ==
  LET entries == [k \in 1..6 |->
                    IF k <= 4
                      THEN [applies |-> marked[k], label |-> HostingMarkers[k].label]
                      ELSE [applies |-> ServerContains(h, ServerMarkers[k - 4].word),
                            label |-> ServerMarkers[k - 4].label]]
  IN IF \A k \in 1..6 : ~entries[k].applies THEN "Unknown"
     ELSE entries[Least({ k \in 1..6 : entries[k].applies }, 0)].label

\* C8 as stated: a marker header applies when it is present.
C8_PresentMarkerDecides ==
  HasResult => result.infrastructure.hosting = FirstLabel(headers, [k \in 1..4 |-> Present(headers, HostingMarkers[k].header)])

\* C8, amended: hosting is the label of the first entry that applies, a
\* marker header applying when it is present with a non-empty value; it is
\* one of the seven labels, cf-ray abc123 alone gives Cloudflare and no
\* header gives Unknown.
C8_HostingDecisionList ==
  HasResult =>
    /\ result.infrastructure.hosting = FirstLabel(headers, [k \in 1..4 |-> NonEmpty(headers, HostingMarkers[k].header)])
    /\ result.infrastructure.hosting \in HostingLabels
    /\ headers = <<[name |-> "cf-ray", value |-> "abc123"]>> =>
         result.infrastructure.hosting = "Cloudflare"
    /\ headers = <<>> => result.infrastructure.hosting = "Unknown"

\* Two marker headers are set and the earlier entry gives the label.
C8_Witness ==
  /\ HasResult
  /\ ~Present(headers, "cf-ray")
  /\ NonEmpty(headers, "x-vercel-id") /\ NonEmpty(headers, "x-nf-request-id")
  /\ result.infrastructure.hosting = "Vercel"

\* The rules of a catalog that match content.
Matching(rules, content) ==
  { k \in 1..Len(rules) : RegexTest(rules[k].re, content) }

\* list names the tools of the rules in matching, a set of indexes of the
\* catalog, in catalog order, once each.
IsCatalogSelection(list, rules, matching) ==
  /\ Len(list) = Cardinality(matching)
  /\ NoDuplicates(list)
  /\ \A n \in 1..Len(list) :
       \E k \in matching :
         /\ list[n] = rules[k].tool
         /\ Cardinality({ j \in matching : j < k }) = n - 1

\* Every list of a snapshot is the selection of its catalog; the CDN rules
\* read searchContent, the corpus followed by the serialized headers.
CatalogLists(snapshot, corpus, searchContent) ==
  /\ IsCatalogSelection(snapshot.marketing.crm, CRMRules, Matching(CRMRules, corpus))
  /\ IsCatalogSelection(snapshot.marketing.emailMarketing, EmailRules,
                        Matching(EmailRules, corpus))
  /\ IsCatalogSelection(snapshot.marketing.adPlatforms, AdPlatformRules,
                        Matching(AdPlatformRules, corpus))
  /\ IsCatalogSelection(snapshot.marketing.conversionTools, ConversionRules,
                        Matching(ConversionRules, corpus))
  /\ IsCatalogSelection(snapshot.marketing.widgets, WidgetRules,
                        Matching(WidgetRules, corpus))
  /\ IsCatalogSelection(snapshot.infrastructure.cms, CMSRules \o DrupalRules,
                        Matching(CMSRules \o DrupalRules, corpus))
  /\ IsCatalogSelection(snapshot.infrastructure.cdn, CDNRules,
                        Matching(CDNRules, searchContent))

\* C9: each list-valued finding of a snapshot returned by static
\* classification names exactly the tools with a matching rule, in catalog
\* order, each once (the CDN rules read the corpus and the serialized
\* headers).
C9_CatalogOrderLists ==
  (Returned /\ ~apiKey) =>
    CatalogLists(result, Combined(html),
                 Combined(html) \o " " \o JSONStringifyHeaders(headers))

\* Salesforce's marker comes first in the page and two rules of HubSpot
\* match: HubSpot is first in the list, and once in it.
C9_Witness ==
  /\ Returned
  /\ html = "pardot.com HS-SCRIPTS.COMhubspot"
  /\ result.marketing.crm = <<"HubSpot", "Salesforce">>

\* The order of the e-commerce decision list.
EcommerceOrder == <<"Shopify", "WooCommerce", "Magento", "BigCommerce">>

\* The rule of a tool matches content.
ToolMatches(rules, tool, content) ==
  \E k \in 1..Len(rules) : rules[k].tool = tool /\ RegexTest(rules[k].re, content)

\* The platform a snapshot names is the first of the order whose rule
\* matches the corpus, and null when none does.
IsFirstMatch(ecommerce, matching) ==
  ecommerce = IF matching = {} THEN Null ELSE Some(EcommerceOrder[Least(matching, 0)])

\* C10: ecommerce of a returned snapshot is the first platform of the order
\* whose rule matches, null when none does, whatever the CMS findings; a
\* corpus with wp-content/ and cdn.shopify.com gives WordPress and Shopify.
C10_EcommerceFirstMatch ==
  Returned =>
    /\ IsFirstMatch(result.infrastructure.ecommerce,
                    { k \in 1..4 : ToolMatches(EcommerceRules, EcommerceOrder[k],
                                               Combined(html)) })
    /\ (Includes(html, "wp-content/") /\ Includes(html, "cdn.shopify.com")) =>
         /\ result.infrastructure.ecommerce = Some("Shopify")
         /\ ListIncludes(result.infrastructure.cms, "WordPress")
    /\ html = "wp-content/cdn.shopify.com" =>
         result.infrastructure.cms = <<"WordPress">>

\* The page of the scenario.
C10_Witness ==
  /\ Returned
  /\ html = "wp-content/cdn.shopify.com"
  /\ result.infrastructure.cms = <<"WordPress">>
  /\ result.infrastructure.ecommerce = Some("Shopify")

(***************************************************************************)
(* The summary                                                             *)
(***************************************************************************)
One01(flag) == IF flag THEN 1 ELSE 0

\* The snapshot with other hosting, pixelIds, canonical and robots.
Varied(snapshot, hosting, pixelIds, canonical, robots) ==
  [snapshot EXCEPT !.infrastructure.hosting = hosting,
                   !.marketing.pixelIds = pixelIds,
                   !.seo.canonical = canonical,
                   !.seo.robots = robots]

\* The summary counts of the snapshot, group by group.
IsSummaryOf(summary, snapshot) ==
  /\ summary.categories.analytics \in 0..6
  /\ summary.categories.analytics =
       One01(snapshot.analytics.ga4.found) + One01(snapshot.analytics.gtm.found)
       + One01(snapshot.analytics.microsoftClarity.found)
       + One01(snapshot.analytics.searchConsole.found)
       + One01(snapshot.analytics.seoPlugin.found)
       + One01(snapshot.analytics.bingWebmaster.found)
  /\ summary.categories.marketing =
       Len(snapshot.marketing.crm) + Len(snapshot.marketing.emailMarketing)
       + Len(snapshot.marketing.adPlatforms) + Len(snapshot.marketing.conversionTools)
       + Len(snapshot.marketing.widgets)
  /\ summary.categories.infrastructure =
       Len(snapshot.infrastructure.cms) + One01(snapshot.infrastructure.ecommerce # Null)
       + Len(snapshot.infrastructure.cdn)
  /\ summary.totalToolsFound =
       summary.categories.analytics + summary.categories.marketing
       + summary.categories.infrastructure + summary.categories.seo

\* C11: in every returned snapshot the analytics count is the number of the
\* six analytics tools found, the marketing count the sum of the sizes of
\* crm, emailMarketing, adPlatforms, conversionTools and widgets, the
\* infrastructure count |cms| + (1 if ecommerce) + |cdn|, the total the sum
\* of the four counts; a snapshot that differs only in hosting, pixelIds,
\* canonical or robots has the same summary.
C11_SummaryCounts ==
  Returned =>
    /\ IsSummaryOf(result.summary, result)
    /\ \A hosting \in HostingLabels, pixelIds \in {<<>>, <<"1", "2">>},
          canonical \in {Null, Some("c")}, robots \in {Null, Some("noindex")} :
         calculateSummary(Varied(result, hosting, pixelIds, canonical, robots))
           = result.summary

C11_Witness ==
  /\ Returned
  /\ result.enhancedDetection
  /\ result.summary.categories.analytics = 2
  /\ result.summary.categories.marketing = 3
  /\ result.summary.categories.infrastructure = 3
  /\ Len(result.marketing.pixelIds) > 0
  /\ result.summary.totalToolsFound = 8

(***************************************************************************)
(* SEO findings                                                            *)
(***************************************************************************)
\* The parts a page of SpecSeo is made of, in page order.
RECURSIVE PartsOf(_, _)
PartsOf(text, from) ==
  IF from > Len(text) THEN <<>>
  ELSE LET part == CHOOSE p \in SeoParts : HasAt(text, from, p.text)
       IN <<part>> \o PartsOf(text, from + Len(part.text))

\* The elements of the list, each at its first occurrence.
FirstOccurrences(list) ==
  LET keep == { i \in 1..Len(list) : \A j \in 1..(i - 1) : list[j] # list[i] }
  IN [k \in 1..Cardinality(keep) |->
        list[CHOOSE i \in keep : Cardinality({ j \in keep : j < i }) = k - 1]]

\* The @type of each part that declares one, in page order.
RECURSIVE DeclaredTypes(_)
DeclaredTypes(parts) ==
  IF Len(parts) = 0 THEN <<>>
  ELSE (IF Head(parts).declares THEN <<Head(parts).type>> ELSE <<>>)
       \o DeclaredTypes(Tail(parts))

HasDescriptionTag(parts) == \E i \in 1..Len(parts) : parts[i].description

\* C12: the seo count of a returned snapshot is (1 if structured data was
\* found) + (1 if the page has a meta description tag), a tag with empty
\* content included.
C12_SeoCount ==
  Returned =>
    result.summary.categories.seo
      = One01(result.seo.hasSchema) + One01(HasDescriptionTag(PartsOf(html, 1)))

FlagsAndLists(detections) ==
  [ga4 |-> detections.analytics.ga4.found,
   gtm |-> detections.analytics.gtm.found,
   microsoftClarity |-> detections.analytics.microsoftClarity.found,
   searchConsole |-> detections.analytics.searchConsole.found,
   seoPlugin |-> detections.analytics.seoPlugin.found,
   bingWebmaster |-> detections.analytics.bingWebmaster.found,
   plugins |-> detections.analytics.seoPlugin.plugins,
   crm |-> detections.marketing.crm,
   emailMarketing |-> detections.marketing.emailMarketing,
   adPlatforms |-> detections.marketing.adPlatforms,
   conversionTools |-> detections.marketing.conversionTools,
   widgets |-> detections.marketing.widgets,
   cms |-> detections.infrastructure.cms,
   cdn |-> detections.infrastructure.cdn]

\* C14: changing the letter case of the page (here: to lower case) changes
\* no found flag of an analytics tool and no list-valued finding.
C14_CaseInsensitive ==
  Returned =>
    FlagsAndLists(result) = FlagsAndLists(runDetectors(ToLower(html), headers))

\* C15: for a page without a <script> tag the corpus the detectors search
\* is the page itself, nothing appended; an opening <script> without a
\* closing tag contributes no text.
C15_CorpusIsHtml ==
  /\ ~Includes(ToLower(html), "</script>") => extractScriptContents(html) = ""
  /\ ~Includes(ToLower(html), "<script") => Combined(html) = html

(***************************************************************************)
(* The empty page                                                          *)
(***************************************************************************)
\* Every found flag false, every list-valued finding empty, no ecommerce
\* platform, nothing counted.
NothingFound(snapshot) ==
  /\ ~snapshot.analytics.ga4.found
  /\ ~snapshot.analytics.gtm.found
  /\ ~snapshot.analytics.microsoftClarity.found
  /\ ~snapshot.analytics.searchConsole.found
  /\ ~snapshot.analytics.seoPlugin.found
  /\ ~snapshot.analytics.bingWebmaster.found
  /\ ~snapshot.seo.hasSchema
  /\ snapshot.analytics.ga4.measurementIds = <<>>
  /\ snapshot.analytics.gtm.containerIds = <<>>
  /\ snapshot.analytics.seoPlugin.plugins = <<>>
  /\ snapshot.marketing.crm = <<>>
  /\ snapshot.marketing.emailMarketing = <<>>
  /\ snapshot.marketing.adPlatforms = <<>>
  /\ snapshot.marketing.pixelIds = <<>>
  /\ snapshot.marketing.conversionTools = <<>>
  /\ snapshot.marketing.widgets = <<>>
  /\ snapshot.infrastructure.cms = <<>>
  /\ snapshot.infrastructure.cdn = <<>>
  /\ snapshot.seo.schemaTypes = <<>>
  /\ snapshot.infrastructure.ecommerce = Null
  /\ snapshot.summary.totalToolsFound = 0

\* The markers of the CDN rules.
CdnMarkers == {"cloudflare.com", "cf-ray", "cloudfront.net", "fastly.net", "akamai.net"}

\* No header name or value contains a CDN marker, in any letter case.
NoCdnMarker(h) ==
  \A i \in 1..Len(h), marker \in CdnMarkers :
    ~Includes(ToLower(h[i].name), marker) /\ ~Includes(ToLower(h[i].value), marker)

\* C16 as claimed: for an empty page, whatever the headers, nothing is found.
C16_EmptyPageAnyHeaders ==
  (Returned /\ html = "") => NothingFound(result)

\* C16, amended: for an empty page whose headers contain no CDN marker,
\* every found flag is false, every list-valued finding empty, ecommerce
\* null and totalToolsFound 0.
C16_EmptyPageNoCdnMarker ==
  (Returned /\ html = "" /\ NoCdnMarker(headers)) => NothingFound(result)

C16_Witness ==
  /\ Returned
  /\ html = ""
  /\ Len(headers) = 2
  /\ NoCdnMarker(headers)
  /\ result.infrastructure.hosting = "Vercel"
  /\ NothingFound(result)

NoHostingKey(h) ==
  \A name \in {"server", "cf-ray", "x-vercel-id", "x-nf-request-id", "x-github-request"} :
    ~Present(h, name)

\* C18: for every page and header object the detectors, the hosting rules
\* and the summary complete and a snapshot is returned; a header object
\* without the hosting keys gives hosting Unknown, and a page and headers
\* in which nothing is detected give the all-empty snapshot.
C18_ClassificationCompletes ==
  /\ pc = "done" => outcome = Resolved
  /\ Returned =>
       /\ result.summary.totalToolsFound >= 0
       /\ NoHostingKey(headers) => result.infrastructure.hosting = "Unknown"
       /\ (html = "" /\ headers = <<>>) => NothingFound(result)

C18_Witness ==
  /\ Returned
  /\ html = "<script type='application/ld+json'>null</script>"
  /\ headers = <<[name |-> "x-powered-by", value |-> "PHP"]>>
  /\ result.infrastructure.hosting = "Unknown"
  /\ NothingFound(result)

(***************************************************************************)
(* analyzeBatch                                                            *)
(***************************************************************************)
\* The positions of the log with that event for the URL of that index.
Positions(kind, index) ==
  { p \in 1..Len(batch.log) : batch.log[p].event = kind /\ batch.log[p].index = index }

\* The entry of results for a URL whose analyzeAndSave settled as promise.
EntryFor(u, promise) ==
  IF promise.state = "resolved"
    THEN [url |-> u, success |-> TRUE,
          result |-> promise.value.result, files |-> promise.value.files]
    ELSE [url |-> u, success |-> FALSE, error |-> promise.error]

\* C19: analyzeBatch never rejects; the analysis of a URL starts only after
\* those of all URLs before it have settled, at most one is under way; it
\* returns one entry per URL, in input order, the success entry with result
\* and files when analyzeAndSave resolved, the failure entry with the error
\* when it rejected, and every URL was analyzed whatever failed before it.
C19_BatchSequential ==
  batch.pc # "none" =>
    /\ batch.pc # "rejected"
    /\ \A p \in 1..Len(batch.log) :
         batch.log[p].event = "start" =>
           \A k \in 0..(batch.log[p].index - 1) :
             \E q \in Positions("settled", k) : q < p
    /\ \A k \in 0..(Len(batch.urls) - 1) :
         /\ Cardinality(Positions("start", k)) <= 1
         /\ Cardinality(Positions("settled", k)) <= Cardinality(Positions("start", k))
    /\ batch.pc = "returned" =>
         /\ Len(batch.results) = Len(batch.urls)
         /\ \A k \in 1..Len(batch.urls) :
              /\ Cardinality(Positions("settled", k - 1)) = 1
              /\ \A q \in Positions("settled", k - 1) :
                   batch.results[k] = EntryFor(batch.urls[k], batch.log[q].promise)

\* The first URL fails, the second is analyzed and saved.
C19_Witness ==
  /\ batch.pc = "returned"
  /\ batch.urls = <<"", "example.com">>
  /\ batch.results[1] = [url |-> "", success |-> FALSE, error |-> "Invalid URL: https://"]
  /\ batch.results[2].success
  /\ batch.results[2].files.json # Null

\* C20: the analysis of every URL but the first starts right after the
\* delay that followed the settling of the URL before it, whether that one
\* succeeded or failed, has elapsed; no delay is waited after the last URL.
C20_DelayBetween ==
  batch.pc # "none" =>
    /\ \A p \in 1..Len(batch.log) :
         (batch.log[p].event = "start" /\ batch.log[p].index > 0) =>
           /\ p > 3
           /\ batch.log[p - 1] = Event("elapsed", batch.log[p].index - 1, Pending)
           /\ batch.log[p - 2] = Event("delay", batch.log[p].index - 1, Pending)
           /\ batch.log[p - 3].event = "settled"
           /\ batch.log[p - 3].index = batch.log[p].index - 1
    /\ \A p \in 1..Len(batch.log) :
         batch.log[p].event = "delay" => batch.log[p].index < Len(batch.urls) - 1
    /\ (batch.pc = "returned" /\ Len(batch.log) > 0) =>
         batch.log[Len(batch.log)].event = "settled"

\* Two URLs, the first failed, the second analyzed after the delay.
C20_Witness ==
  /\ batch.pc = "returned"
  /\ Len(batch.urls) = 2
  /\ ~batch.results[1].success
  /\ Positions("delay", 0) = {3}
  /\ Positions("start", 1) = {5}
  /\ Positions("delay", 1) = {}

\* The paths written during the analyzeAndSave of the URL of index k, in
\* the order of the writes.
RECURSIVE PathsOf(_, _)
PathsOf(files, k) ==
  IF Len(files) = 0 THEN <<>>
  ELSE IF Head(files).index = k THEN <<Head(files).path>> \o PathsOf(Tail(files), k)
  ELSE PathsOf(Tail(files), k)

\* What the analyzeAndSave of the URL of index k, whose analyzeWebsite
\* settled as analysis, has written and how it settled.
SavedAfterAnalysis(k, analysis, written) ==
  IF analysis.state = "rejected"
    THEN /\ written = <<>>
         /\ \E q \in Positions("settled", k) : batch.log[q].promise = analysis
    ELSE /\ \/ written = <<>>
            \/ written = <<MdPath(analysis.value)>>
            \/ batch.includeJson
                 /\ written = <<MdPath(analysis.value), JsonPath(analysis.value)>>
         /\ \A q \in Positions("settled", k) :
              batch.log[q].promise.state = "resolved" =>
                /\ Len(written) = IF batch.includeJson THEN 2 ELSE 1
                /\ batch.log[q].promise.value.files.markdown = MdPath(analysis.value)
                /\ batch.log[q].promise.value.files.json =
                     IF Len(written) = 2 THEN Some(JsonPath(analysis.value)) ELSE Null

\* C23: analyzeAndSave writes only after analyzeWebsite resolved; when it
\* rejected nothing is written and analyzeAndSave rejects with the same
\* error; else the markdown report is written first, the JSON file only
\* after it and only with includeJson, and a resolved analyzeAndSave has
\* written the JSON file iff includeJson and returns files.json as the
\* JSON path iff it was written, null otherwise.
C23_WritesAfterAnalysis ==
  batch.pc # "none" =>
    \A k \in 0..(Len(batch.urls) - 1) :
      IF k < Len(batch.analyses)
        THEN SavedAfterAnalysis(k, batch.analyses[k + 1], PathsOf(batch.files, k))
        ELSE PathsOf(batch.files, k) = <<>>

\* Without includeJson the first URL was saved as markdown only and the
\* second, whose analysis timed out, left no file.
C23_Witness ==
  /\ batch.pc = "returned"
  /\ ~batch.includeJson
  /\ Len(batch.urls) = 2
  /\ batch.results[1].success
  /\ batch.results[1].files.json = Null
  /\ batch.analyses[2] = Rejected("Request timed out")
  /\ Len(batch.files) = 1

(***************************************************************************)
(* Failures of the page fetch                                              *)
(***************************************************************************)
\* C21: once the timeout has elapsed with the fetch unsettled, the call can
\* only reject, with 'Request timed out'; another failure of the fetch
\* rejects with 'Failed to fetch ...', a response that is not 2xx with
\* 'HTTP <status>'; a rejected call has run no detector and returns no
\* snapshot.
C21_FetchFailureMessages ==
  /\ timer = "fired" =>
       \/ pc = "fetching"
       \/ pc = "done" /\ outcome = Rejected("Request timed out")
  /\ (pc = "done" /\ failure = "network") =>
       outcome = Rejected("Failed to fetch " \o url \o ": fetch failed")
  /\ (status # 0 /\ status \notin 200..299) =>
       /\ pc = "done"
       /\ outcome.state = "rejected"
       /\ \E text \in {"", "Not Found"} :
            outcome.error = "HTTP " \o ToString(status) \o ": " \o text
  /\ outcome.state = "rejected" => (pc = "done" /\ result = Null)

\* The page fetch was aborted by the timer.
C21_Witness ==
  /\ pc = "done"
  /\ timer = "fired"
  /\ failure = "timeout"
  /\ outcome = Rejected("Request timed out")
  /\ result = Null

(***************************************************************************)
(* Calls under way at once                                                 *)
(***************************************************************************)
\* The snapshot a call returns when it runs alone and gets the responses
\* the call c got.
AloneFrom(c, built) ==
  IF c.apiKey
    THEN Summarised(c, EnhancedStep(built, c.reply).result).result
    ELSE Summarised(c, built).result

Alone(c) == AloneFrom(c, BuildResult(c.url, c.html, c.headers, c.status))

PlatformNames ==
  {{"Facebook/Meta Pixel", "facebook"}, {"LinkedIn Insight Tag", "linkedin"},
   {"TikTok Pixel", "tiktok"}}

KeysOf(entries) == { entries[i].key : i \in 1..Len(entries) }

\* The reply is a payload with the keys runBrowserlessDetection asks for.
BrowserlessPayload ==
  /\ reply.kind = "http" /\ reply.ok
  /\ JSONParse(reply.body).ok
  /\ KeysOf(ObjectEntries(Property(JSONParse(reply.body).val, "pixels")))
       = {"ga4", "facebook", "clarity", "linkedin", "tiktok"}

EntriesOf(list, names) == { i \in 1..Len(list) : list[i] \in names }

\* C24: after the merge of a payload as runBrowserlessDetection produces
\* it, every ad platform has at most one entry in marketing.adPlatforms.
\* The code does not keep it: the payload names the platform by another
\* string than checkAdPlatforms does.
C24_PlatformListedOnce ==
  (Merged /\ BrowserlessPayload) =>
    \A names \in PlatformNames :
      Cardinality(EntriesOf(result.marketing.adPlatforms, names)) <= 1

\* C25: the snapshot analyzeWebsite returns has enhancedDetection true only
\* if a key was given, the Enhanced Detector responded and its payload was
\* merged; it is false whenever the catch branch ran.  The code does not
\* keep it: the flag is set before the payload is read.
C25_EnhancedOnlyWhenMerged ==
  Returned =>
    /\ result.enhancedDetection => (apiKey /\ reply.kind = "http" /\ reply.ok)
    /\ caught => ~result.enhancedDetection

(***************************************************************************)
(* The timeout timer                                                       *)
(***************************************************************************)
\* C26: once fetch has settled the timer is not running: it was cleared,
\* or it had fired and the call rejected as timed out, or it was never set
\* (the URL was invalid); so it cannot fire during the body read, the
\* detectors or the enrichment, and none runs when analyzeWebsite settles.
C26_TimerCancelled ==
  pc \notin {"idle", "fetching"} =>
    /\ timer # "armed"
    /\ timer = "fired" => (pc = "done" /\ failure = "timeout")
    /\ timer = "unset" => (pc = "done" /\ StartsWith(outcome.error, "Invalid URL: "))
    /\ pc \in {"reading", "detect", "enriching", "summary"} => timer = "cleared"

\* The call returned after an enrichment, its timer cleared since the
\* fetch resolved.
C26_Witness ==
  /\ Returned
  /\ apiKey
  /\ reply.kind # "none"
  /\ timer = "cleared"

(***************************************************************************)
(* Flags and details                                                       *)
(***************************************************************************)
\* C27: the found flag of the other analytics tools agrees with the detail
\* extracted: a Clarity projectId implies found; Search Console and Bing
\* Webmaster are found iff they have a verification code; an SEO plugin is
\* found iff plugins is not empty.  The code does not keep it for Clarity:
\* the identifier is read without regard to letter case, found is not.
C27_FoundAgreesWithDetail ==
  HasResult =>
    /\ result.analytics.microsoftClarity.projectId # Null
         => result.analytics.microsoftClarity.found
    /\ result.analytics.searchConsole.found
         <=> result.analytics.searchConsole.verificationCode # Null
    /\ result.analytics.bingWebmaster.found
         <=> result.analytics.bingWebmaster.verificationCode # Null
    /\ result.analytics.seoPlugin.found
         <=> Len(result.analytics.seoPlugin.plugins) > 0

\* C28: in static detection, before any merge, a result with a pixel
\* identifier lists the platform of the pixel: marketing.pixelIds not empty
\* implies 'Facebook/Meta Pixel' in marketing.adPlatforms.
C28_PixelIdHasPlatform ==
  (HasResult /\ (~apiKey \/ pc = "enriching")) =>
    (Len(result.marketing.pixelIds) > 0
       => ListIncludes(result.marketing.adPlatforms, "Facebook/Meta Pixel"))

\* A page whose only pixel marker is the fbq init call, analyzed without a
\* key.
C28_Witness ==
  /\ Returned
  /\ ~apiKey
  /\ html = "fbq('init','1')"
  /\ result.marketing.pixelIds = <<"Facebook: 1">>
  /\ result.marketing.adPlatforms = <<"Facebook/Meta Pixel">>

(***************************************************************************)
(* Hosting and CDN                                                         *)
(***************************************************************************)
\* C29: when the hosting found is Cloudflare, the CDN list names
\* Cloudflare.
C29_CloudflareHostingIsCdn ==
  HasResult =>
    (result.infrastructure.hosting = "Cloudflare"
       => ListIncludes(result.infrastructure.cdn, "Cloudflare"))

\* An empty page answered with a cf-ray header and a server header.
C29_Witness ==
  /\ HasResult
  /\ html = ""
  /\ NonEmpty(headers, "cf-ray") /\ Present(headers, "server")
  /\ result.infrastructure.hosting = "Cloudflare"
  /\ result.infrastructure.cdn = <<"Cloudflare">>

(***************************************************************************)
(* Entries of schemaTypes                                                  *)
(***************************************************************************)
\* The type names the parts of a page declare.
TypeNames(parts) ==
  { parts[i].type : i \in { j \in 1..Len(parts) : parts[j].declares /\ parts[j].type.t = "string" } }

\* C30: every entry of seo.schemaTypes is a type-name string that some
\* parsed ld+json block of the page declares as @type, and hasSchema is
\* true only if some block declares a type name.  The code does not keep
\* it for a block whose @type is the empty sequence.
C30_SchemaTypesAreNames ==
  Returned =>
    /\ \A i \in 1..Len(result.seo.schemaTypes) :
         /\ result.seo.schemaTypes[i].t = "string"
         /\ result.seo.schemaTypes[i] \in TypeNames(PartsOf(html, 1))
    /\ result.seo.hasSchema => TypeNames(PartsOf(html, 1)) # {}

====
